---- MODULE Spec2Model ----
(***************************************************************************)
(* Conversation & Artifact Correlation Gateway (backend/app).              *)
(*                                                                         *)
(* The specifications share the variables below:                         *)
(*   Spec        one request at a time: every handler of                   *)
(*               api/routes/chat.py is one atomic step;                    *)
(*   SpecConc    concurrent thread mutations: a request loads the thread   *)
(*               row into its session, checks it, and commits later;       *)
(*   SpecStream  the streaming relay chat_stream / gen, step by step,      *)
(*               next to a concurrent delete_thread (SpecStreamFair: with  *)
(*               the finalizer of an abandoned generator);                 *)
(*   SpecPath    _resolve_artifact_path of api/routes/artifacts.py;        *)
(*   SpecRun     messages, artifacts and their run_id;                     *)
(*   SpecTenant  every handler that reads or writes a row;                 *)
(*   SpecBulk    the bulk inserts step by step, several in flight;         *)
(*   SpecFiles   download_artifact and list_artifact_files over a storage; *)
(*   SpecUlid    generate_ulid of core/ids.py;                             *)
(*   SpecUse     the handlers that use a thread, next to its lifecycle.    *)
(***************************************************************************)
EXTENDS Integers, Sequences, FiniteSets, TLC

VARIABLES
    threads,        \* table conversation_thread: a set of rows
    chat_message,   \* table chat_message: rows in insertion order
    clock,          \* the UTC wall clock, in ticks
    tz,             \* offset of the server's local time from UTC, in ticks
    last,           \* the latest request and its answer (history)
    sessions,       \* SpecConc: per request, the ORM session's state
    relay,          \* SpecStream: the state of one chat_stream call
    artifact,       \* table artifact: a set of rows
    disk            \* the artifact storage: the configured root, symlinks

vars == <<threads, chat_message, clock, tz, last, sessions, relay,
          artifact, disk>>

----------------------------------------------------------------------------
(* Bounds of the model *)

MaxClock == 4       \* the clock runs from 0 to MaxClock
MaxTz == 3          \* the local offset is -MaxTz, 0 or MaxTz
MaxMessages == 1    \* rows of chat_message
MaxBatch == 1       \* messages in one create_messages payload
MaxRequests == 2    \* SpecConc: requests in flight at the same time
MaxCalls == 2       \* SpecStream: create and delete requests beside the stream
MaxChunks == 2      \* SpecStream: chunks the upstream sends
MaxChunkLen == 1    \* SpecStream: bytes in one chunk
MaxWrites == 3      \* SpecRun: requests other than GET
MaxRows == 2        \* SpecRun: rows of chat_message
MaxItems == 2       \* SpecRun: messages in one create_messages payload
MaxArtifacts == 1   \* SpecRun: rows of artifact, items of one payload
MaxPathLen == 2     \* SpecPath: parts of an artifact's path
MaxSubLen == 1      \* SpecPath: parts of a file_path

Users == {"u1", "u2"}
ThreadIds == {"t1", "t2"}
Titles == {"a"}
None == "None"
RunIds == {None, "", "r1"}

----------------------------------------------------------------------------
(* api/routes/chat.py: constants *)

STATUS_ACTIVE == "active"
STATUS_ARCHIVED == "archived"
STATUS_DELETED == "deleted"

Statuses == {STATUS_ACTIVE, STATUS_ARCHIVED, STATUS_DELETED}

(* Answers of a handler *)
OK == "OK"
NotFound == "NotFound"          \* HTTPException(status_code=404)
Conflict == "Conflict"          \* HTTPException(status_code=409)
IntegrityError == "IntegrityError"
ServerError == "ServerError"    \* an exception that no handler catches
BadRequest == "BadRequest"      \* HTTPException(status_code=400)

----------------------------------------------------------------------------
(* Wall clocks.  c is the UTC instant of the reading. *)

utcnow(c) == c              \* datetime.utcnow(): naive UTC time
now(c) == c + tz            \* datetime.now(): naive server-local time

(* Requests arrive one after the other, each at a later instant *)
Instants == {c \in {clock + 1} : c <= MaxClock}

----------------------------------------------------------------------------
(* Tables *)

(* s is an initial part of t *)
IsPrefix(s, t) ==
    /\ Len(s) <= Len(t)
    /\ \A i \in 1 .. Len(s) : s[i] = t[i]

(* .one_or_none() of a statement that selected a row *)
one(rows) == CHOOSE r \in rows : TRUE

StoredIds == {r.thread_id : r \in threads}

(* session.add(row); session.commit() of a loaded and modified row *)
Replace(old, new) == (threads \ {old}) \cup {new}

(* _get_thread without the user_id condition of the statement *)
_get_thread_any_owner(user, thread_id, include_deleted) ==
    {r \in threads :
        /\ r.thread_id = thread_id
        /\ (include_deleted \/ r.status # STATUS_DELETED)}

(* _get_thread that shows only active threads unless include_deleted *)
_get_thread_active_only(user, thread_id, include_deleted) ==
    {r \in threads :
        /\ r.thread_id = thread_id
        /\ r.user_id = user
        /\ (include_deleted \/ r.status = STATUS_ACTIVE)}

(* _get_thread: the rows the statement selects; empty means 404 *)
_get_thread(user, thread_id, include_deleted) ==
    {r \in threads :
        /\ r.thread_id = thread_id
        /\ r.user_id = user
        /\ (include_deleted \/ r.status # STATUS_DELETED)}

(* A request and its answer: pre is what _get_thread loaded (no row: {}),
   ret the row the handler returned, payload the list the request carried
   and out the list the handler returned *)
NoCall == [op |-> "none", user |-> "none", thread_id |-> "none",
           answer |-> "none", pre |-> {}, ret |-> {},
           payload |-> <<>>, out |-> <<>>]

Call(op, user, thread_id, answer, pre, ret) ==
    [op |-> op, user |-> user, thread_id |-> thread_id,
     answer |-> answer, pre |-> pre, ret |-> ret,
     payload |-> <<>>, out |-> <<>>]

(* A request with a list in its body (payload) or in its answer (out) *)
ListCall(op, user, thread_id, answer, pre, ret, payload, out) ==
    [Call(op, user, thread_id, answer, pre, ret)
        EXCEPT !.payload = payload, !.out = out]

(* One chat_stream call.  pc is the position of the handler and of gen():
     none       not called yet
     rejected   the handler raised 404
     returned   the handler returned the StreamingResponse, gen() not started
     client     inside "async with httpx.AsyncClient"
     headers    inside "async with client.stream": response headers are in
     iter       in "async for", waiting for the next chunk
     chunk      a chunk is in hand, before "if chunk"
     yield      suspended at "yield chunk", the chunk is with the client
     abandoned  the client went away while gen() was suspended at yield
     done       the upstream ended the body and gen() returned
     error      the upstream request failed and gen() raised
     cancelled  the client went away and gen() was unwound *)
(* The storage is not looked at: no root configured, nothing stored *)
NoDisk == [root |-> {}, links |-> {}, files |-> {}, dirs |-> {}]

NoRelay == [pc |-> "none", user |-> "none", thread_id |-> "none",
            check |-> "none", opens |-> 0, conn |-> FALSE, status |-> 0,
            nchunks |-> 0, chunk |-> <<>>, received |-> <<>>,
            emitted |-> <<>>]

----------------------------------------------------------------------------
(* Spec: the handlers, one request at a time *)

Others == <<sessions, relay, artifact, disk>>

(* create_thread on a table without the primary key on thread_id *)
create_thread_unkeyed(user, title, id, at) ==
    LET thread == [thread_id |-> id, user_id |-> user, title |-> title,
                   status |-> STATUS_ACTIVE,
                   created_at |-> utcnow(at), updated_at |-> utcnow(at)]
    IN  /\ clock' = at
        /\ threads' = threads \cup {thread}
        /\ last' = Call("create", user, id, OK, {}, {thread})
        /\ UNCHANGED <<chat_message, tz, Others>>

(* POST /threads *)
create_thread(user, title, id, at) ==
    LET thread == [thread_id |-> id, user_id |-> user, title |-> title,
                   status |-> STATUS_ACTIVE,
                   created_at |-> utcnow(at), updated_at |-> utcnow(at)]
    IN  /\ clock' = at
        /\ IF id \in StoredIds
           THEN \* the primary key rejects the insert
                /\ UNCHANGED threads
                /\ last' = Call("create", user, id, IntegrityError, {}, {})
           ELSE /\ threads' = threads \cup {thread}
                /\ last' = Call("create", user, id, OK, {}, {thread})
        /\ UNCHANGED <<chat_message, tz, Others>>

(* GET /threads/{thread_id} *)
get_thread(user, thread_id, at) ==
    LET found == _get_thread(user, thread_id, FALSE)
    IN  /\ clock' = at
        /\ last' = Call("get", user, thread_id,
                        IF found = {} THEN NotFound ELSE OK,
                        found, found)
        /\ UNCHANGED <<threads, chat_message, tz, Others>>

(* update_thread loading the thread with include_deleted=True *)
update_thread_include_deleted(user, thread_id, update_data, at) ==
    LET found == _get_thread(user, thread_id, TRUE)
    IN  /\ clock' = at
        /\ IF found = {}
           THEN /\ UNCHANGED threads
                /\ last' = ListCall("update", user, thread_id, NotFound,
                                    {}, {}, <<update_data>>, <<>>)
           ELSE LET thread == one(found)
                    new == IF DOMAIN update_data # {}
                           THEN [thread EXCEPT !.title = update_data["title"],
                                               !.updated_at = now(at)]
                           ELSE thread
                IN  /\ threads' = Replace(thread, new)
                    /\ last' = ListCall("update", user, thread_id, OK,
                                        found, {new}, <<update_data>>, <<>>)
        /\ UNCHANGED <<chat_message, tz, Others>>

(* PATCH /threads/{thread_id}; update_data is model_dump(exclude_unset=True),
   kept in last.payload *)
update_thread(user, thread_id, update_data, at) ==
    LET found == _get_thread(user, thread_id, FALSE)
    IN  /\ clock' = at
        /\ IF found = {}
           THEN /\ UNCHANGED threads
                /\ last' = ListCall("update", user, thread_id, NotFound,
                                    {}, {}, <<update_data>>, <<>>)
           ELSE LET thread == one(found)
                    new == IF DOMAIN update_data # {}
                           THEN [thread EXCEPT !.title = update_data["title"],
                                               !.updated_at = now(at)]
                           ELSE thread
                IN  /\ threads' = Replace(thread, new)
                    /\ last' = ListCall("update", user, thread_id, OK,
                                        found, {new}, <<update_data>>, <<>>)
        /\ UNCHANGED <<chat_message, tz, Others>>

(* archive_thread, restore_thread, delete_thread share this shape: load with
   include_deleted=True, 409 unless the status is allowed, set the status
   and stamp updated_at with datetime.now() *)
transition(op, user, thread_id, allowed, target, at) ==
    LET found == _get_thread(user, thread_id, TRUE)
    IN  /\ clock' = at
        /\ IF found = {}
           THEN /\ UNCHANGED threads
                /\ last' = Call(op, user, thread_id, NotFound, {}, {})
           ELSE LET thread == one(found)
                    new == [thread EXCEPT !.status = target,
                                          !.updated_at = now(at)]
                IN  IF thread.status \notin allowed
                    THEN /\ UNCHANGED threads
                         /\ last' = Call(op, user, thread_id, Conflict, found, {})
                    ELSE /\ threads' = Replace(thread, new)
                         /\ last' = Call(op, user, thread_id, OK, found, {new})
        /\ UNCHANGED <<chat_message, tz, Others>>

(* archive_thread with delete_thread's check: 409 only when deleted *)
archive_thread_not_deleted(user, thread_id, at) ==
    transition("archive", user, thread_id,
               Statuses \ {STATUS_DELETED}, STATUS_ARCHIVED, at)

(* POST /threads/{thread_id}/archive *)
archive_thread(user, thread_id, at) ==
    transition("archive", user, thread_id, {STATUS_ACTIVE}, STATUS_ARCHIVED, at)

(* restore_thread without its status check *)
restore_thread_unchecked(user, thread_id, at) ==
    transition("restore", user, thread_id, Statuses, STATUS_ACTIVE, at)

(* restore_thread with delete_thread's check: 409 only when deleted *)
restore_thread_not_deleted(user, thread_id, at) ==
    transition("restore", user, thread_id,
               Statuses \ {STATUS_DELETED}, STATUS_ACTIVE, at)

(* POST /threads/{thread_id}/restore *)
restore_thread(user, thread_id, at) ==
    transition("restore", user, thread_id, {STATUS_ARCHIVED}, STATUS_ACTIVE, at)

(* delete_thread without its status check *)
delete_thread_unchecked(user, thread_id, at) ==
    transition("delete", user, thread_id, Statuses, STATUS_DELETED, at)

(* DELETE /threads/{thread_id} *)
delete_thread(user, thread_id, at) ==
    transition("delete", user, thread_id,
               Statuses \ {STATUS_DELETED}, STATUS_DELETED, at)

(* GET /chat/stream, the handler itself: it checks the thread and returns the
   StreamingResponse; gen() runs while the response is sent (SpecStream) *)
chat_stream(user, thread_id, at) ==
    LET found == _get_thread(user, thread_id, FALSE)
    IN  /\ clock' = at
        /\ last' = Call("stream", user, thread_id,
                        IF found = {} THEN NotFound ELSE OK,
                        found, {})
        /\ UNCHANGED <<threads, chat_message, tz, Others>>

(* create_messages whose thread check leaves out the owner *)
create_messages_any_owner(user, thread_id, messages, at) ==
    LET found == _get_thread_any_owner(user, thread_id, FALSE)
        rows == [i \in 1 .. Len(messages) |->
                    [id |-> Len(chat_message) + i, thread_id |-> thread_id,
                     user_id |-> user, run_id |-> messages[i],
                     created_at |-> utcnow(at)]]
    IN  /\ clock' = at
        /\ IF messages = <<>>
           THEN /\ UNCHANGED <<threads, chat_message>>
                /\ last' = ListCall("record", user, thread_id, OK, {}, {},
                                    messages, <<>>)
           ELSE IF found = {}
           THEN /\ UNCHANGED <<threads, chat_message>>
                /\ last' = ListCall("record", user, thread_id, NotFound, {}, {},
                                    messages, <<>>)
           ELSE LET thread == one(found)
                    new == [thread EXCEPT !.updated_at = utcnow(at)]
                IN  /\ chat_message' = chat_message \o rows
                    /\ threads' = Replace(thread, new)
                    /\ last' = ListCall("record", user, thread_id, OK, found,
                                        {new}, messages, rows)
        /\ UNCHANGED <<tz, Others>>

(* create_messages without the thread check *)
create_messages_unchecked(user, thread_id, messages, at) ==
    LET found == _get_thread(user, thread_id, FALSE)
        rows == [i \in 1 .. Len(messages) |->
                    [id |-> Len(chat_message) + i, thread_id |-> thread_id,
                     user_id |-> user, run_id |-> messages[i],
                     created_at |-> utcnow(at)]]
        stamped == {[r EXCEPT !.updated_at = utcnow(at)] : r \in found}
    IN  /\ clock' = at
        /\ IF messages = <<>>
           THEN /\ UNCHANGED <<threads, chat_message>>
                /\ last' = ListCall("record", user, thread_id, OK, {}, {},
                                    messages, <<>>)
           ELSE /\ chat_message' = chat_message \o rows
                /\ threads' = (threads \ found) \cup stamped
                /\ last' = ListCall("record", user, thread_id, OK, found,
                                    stamped, messages, rows)
        /\ UNCHANGED <<tz, Others>>

(* create_messages without the early return of an empty payload *)
create_messages_stamps_empty(user, thread_id, messages, at) ==
    LET found == _get_thread(user, thread_id, FALSE)
        rows == [i \in 1 .. Len(messages) |->
                    [id |-> Len(chat_message) + i, thread_id |-> thread_id,
                     user_id |-> user, run_id |-> messages[i],
                     created_at |-> utcnow(at)]]
    IN  /\ clock' = at
        /\ IF found = {}
           THEN /\ UNCHANGED <<threads, chat_message>>
                /\ last' = ListCall("record", user, thread_id, NotFound, {}, {},
                                    messages, <<>>)
           ELSE LET thread == one(found)
                    new == [thread EXCEPT !.updated_at = utcnow(at)]
                IN  /\ chat_message' = chat_message \o rows
                    /\ threads' = Replace(thread, new)
                    /\ last' = ListCall("record", user, thread_id, OK, found,
                                        {new}, messages, rows)
        /\ UNCHANGED <<tz, Others>>

(* POST /messages; messages is the payload's list, here the run_id of each *)
create_messages(user, thread_id, messages, at) ==
    LET found == _get_thread(user, thread_id, FALSE)
        rows == [i \in 1 .. Len(messages) |->
                    [id |-> Len(chat_message) + i, thread_id |-> thread_id,
                     user_id |-> user, run_id |-> messages[i],
                     created_at |-> utcnow(at)]]
    IN  /\ clock' = at
        /\ IF messages = <<>>
           THEN /\ UNCHANGED <<threads, chat_message>>
                /\ last' = ListCall("record", user, thread_id, OK, {}, {},
                                    messages, <<>>)
           ELSE IF found = {}
           THEN /\ UNCHANGED <<threads, chat_message>>
                /\ last' = ListCall("record", user, thread_id, NotFound, {}, {},
                                    messages, <<>>)
           ELSE LET thread == one(found)
                    new == [thread EXCEPT !.updated_at = utcnow(at)]
                IN  /\ chat_message' = chat_message \o rows
                    /\ threads' = Replace(thread, new)
                    /\ last' = ListCall("record", user, thread_id, OK, found,
                                        {new}, messages, rows)
        /\ UNCHANGED <<tz, Others>>

(* Spec: payloads of messages without a run_id (SpecRun has the others) *)
Batches == UNION {[1 .. n -> {None}] : n \in 0 .. MaxBatch}

Patches == UNION {[F -> Titles \cup {None}] : F \in SUBSET {"title"}}

Init ==
    /\ threads = {}
    /\ chat_message = <<>>
    /\ clock = 0
    /\ tz \in {-MaxTz, 0, MaxTz}
    /\ last = NoCall
    /\ sessions = <<>>
    /\ relay = NoRelay
    /\ artifact = {}
    /\ disk = NoDisk

Next ==
    \/ \E user \in Users, thread_id \in ThreadIds, at \in Instants :
          \E title \in Titles : create_thread(user, title, thread_id, at)
    \/ \E user \in Users, thread_id \in ThreadIds, at \in Instants :
          get_thread(user, thread_id, at)
    \/ \E user \in Users, thread_id \in ThreadIds, at \in Instants :
          \E update_data \in Patches :
              update_thread(user, thread_id, update_data, at)
    \/ \E user \in Users, thread_id \in ThreadIds, at \in Instants :
          archive_thread(user, thread_id, at)
    \/ \E user \in Users, thread_id \in ThreadIds, at \in Instants :
          restore_thread(user, thread_id, at)
    \/ \E user \in Users, thread_id \in ThreadIds, at \in Instants :
          delete_thread(user, thread_id, at)
    \/ \E user \in Users, thread_id \in ThreadIds, at \in Instants :
          chat_stream(user, thread_id, at)
    \/ \E user \in Users, thread_id \in ThreadIds, at \in Instants :
          \E messages \in Batches :
              /\ Len(chat_message) + Len(messages) <= MaxMessages
              /\ create_messages(user, thread_id, messages, at)

Spec == Init /\ [][Next]_vars

----------------------------------------------------------------------------
(* Properties of Spec.  Every step of Spec is one request: last' is that
   request and its answer, the unprimed variables are the state before it. *)

(* the stored rows with this id that this user owns *)
OwnedRows(user, thread_id) ==
    {r \in threads : r.thread_id = thread_id /\ r.user_id = user}

Lifecycle == {"archive", "restore", "delete"}

(* the request of this step finds a thread that its caller owns *)
OnOwned(op) ==
    /\ last'.op = op
    /\ OwnedRows(last'.user, last'.thread_id) # {}

Before == one(OwnedRows(last'.user, last'.thread_id))

After == one({r \in threads' : r.thread_id = last'.thread_id})

(* the request before this one was the same request, on the same thread *)
Repeated ==
    /\ last.op = last'.op
    /\ last.user = last'.user
    /\ last.thread_id = last'.thread_id

(* C1: every change of a thread's stored status is active->archived by a
   successful archive, archived->active by a successful restore, or
   active/archived->deleted by a successful soft delete of that thread; a
   new row is active and comes from create; update, record_messages, get
   and the stream handler change no status. *)
C1_StatusEdges ==
    [][/\ \A r \in threads : \A n \in threads' :
            (n.thread_id = r.thread_id /\ n.status # r.status) =>
                /\ last'.thread_id = r.thread_id
                /\ last'.answer = OK
                /\ \/ /\ r.status = STATUS_ACTIVE
                      /\ n.status = STATUS_ARCHIVED
                      /\ last'.op = "archive"
                   \/ /\ r.status = STATUS_ARCHIVED
                      /\ n.status = STATUS_ACTIVE
                      /\ last'.op = "restore"
                   \/ /\ r.status \in {STATUS_ACTIVE, STATUS_ARCHIVED}
                      /\ n.status = STATUS_DELETED
                      /\ last'.op = "delete"
       /\ \A n \in threads' :
            n.thread_id \notin StoredIds =>
                /\ n.status = STATUS_ACTIVE
                /\ last'.op = "create"
                /\ last'.thread_id = n.thread_id
    ]_vars

(* C1 witness: a thread is active again after archive and restore *)
C1_Witness ==
    /\ last.op = "restore"
    /\ last.answer = OK
    /\ \E r \in last.pre : r.status = STATUS_ARCHIVED
    /\ \E r \in threads :
          r.thread_id = last.thread_id /\ r.status = STATUS_ACTIVE

(* C3: archive on a thread the caller owns succeeds (and stores archived)
   exactly when the status is active; otherwise it answers Conflict and
   leaves the row, status and updated_at included, as it was; an archive
   right after a successful archive answers Conflict. *)
C3_ArchiveOnlyFromActive ==
    [][OnOwned("archive") =>
        /\ (last'.answer = OK) <=> (Before.status = STATUS_ACTIVE)
        /\ last'.answer = OK => After.status = STATUS_ARCHIVED
        /\ Before.status # STATUS_ACTIVE =>
              (last'.answer = Conflict /\ threads' = threads)
        /\ (Repeated /\ last.answer = OK) => last'.answer = Conflict
    ]_vars

(* C3 witness: the second archive in a row was answered Conflict *)
C3_Witness ==
    /\ last.op = "archive"
    /\ last.answer = Conflict
    /\ \E r \in threads :
          /\ r.thread_id = last.thread_id
          /\ r.user_id = last.user
          /\ r.status = STATUS_ARCHIVED

(* C4: restore on a thread the caller owns succeeds (and stores active)
   exactly when the status is archived; from active or deleted it answers
   Conflict and leaves the row as it was. *)
C4_RestoreOnlyFromArchived ==
    [][OnOwned("restore") =>
        /\ (last'.answer = OK) <=> (Before.status = STATUS_ARCHIVED)
        /\ last'.answer = OK => After.status = STATUS_ACTIVE
        /\ Before.status # STATUS_ARCHIVED =>
              (last'.answer = Conflict /\ threads' = threads)
    ]_vars

(* C4 witness: restore of a freshly created thread, never archived, was
   answered Conflict *)
C4_Witness ==
    /\ last.op = "restore"
    /\ last.answer = Conflict
    /\ \E r \in threads :
          /\ r.thread_id = last.thread_id
          /\ r.user_id = last.user
          /\ r.status = STATUS_ACTIVE
          /\ r.updated_at = r.created_at

(* C5: soft delete on a thread the caller owns succeeds from active and
   from archived and stores deleted; on a deleted thread it answers
   Conflict and changes nothing; a soft delete right after a soft delete of
   the same thread answers Conflict. *)
C5_DeleteOnce ==
    [][OnOwned("delete") =>
        /\ (last'.answer = OK) <=> (Before.status # STATUS_DELETED)
        /\ last'.answer = OK => After.status = STATUS_DELETED
        /\ Before.status = STATUS_DELETED =>
              (last'.answer = Conflict /\ threads' = threads)
        /\ Repeated => last'.answer = Conflict
    ]_vars

(* C5 witness: the second soft delete was answered Conflict *)
C5_Witness ==
    /\ last.op = "delete"
    /\ last.answer = Conflict
    /\ \E r \in threads :
          /\ r.thread_id = last.thread_id
          /\ r.user_id = last.user
          /\ r.status = STATUS_DELETED

(* C6: get answers NotFound exactly when the caller owns no thread of that
   id, or owns one that is deleted (include_deleted false); otherwise it
   returns that row.  archive, restore and soft delete (include_deleted
   true) answer NotFound exactly when the caller owns no thread of that id,
   so a thread of another identity gets NotFound, never Conflict. *)
C6_NotFoundRule ==
    [][/\ last'.op = "get" =>
            LET visible == {r \in OwnedRows(last'.user, last'.thread_id) :
                                r.status # STATUS_DELETED}
            IN  /\ (last'.answer = NotFound) <=> (visible = {})
                /\ visible # {} => (last'.answer = OK /\ last'.ret = visible)
       /\ last'.op \in Lifecycle =>
            ((last'.answer = NotFound) <=>
                (OwnedRows(last'.user, last'.thread_id) = {}))
    ]_vars

(* C6 witness: a lifecycle request on another identity's thread was
   answered NotFound *)
C6_Witness ==
    /\ last.op \in Lifecycle
    /\ last.answer = NotFound
    /\ \E r \in threads :
          r.thread_id = last.thread_id /\ r.user_id # last.user

(* C7: updated_at of a thread never decreases from one state to the next,
   whatever the offset between the server's local clock and UTC. *)
C7_UpdatedAtMonotone ==
    [][\A r \in threads : \A n \in threads' :
            n.thread_id = r.thread_id => n.updated_at >= r.updated_at
    ]_vars

(* C8: a successful archive followed by a successful restore of the same
   thread leaves it active with updated_at strictly greater than its value
   before the archive. *)
C8_ArchiveRestoreLater ==
    [][(/\ last.op = "archive"
        /\ last.answer = OK
        /\ last'.op = "restore"
        /\ last'.user = last.user
        /\ last'.thread_id = last.thread_id) =>
            /\ last'.answer = OK
            /\ After.status = STATUS_ACTIVE
            /\ After.updated_at > one(last.pre).updated_at
    ]_vars

----------------------------------------------------------------------------
(* SpecConc: thread mutations in flight together.  A request runs in its own
   session: _get_thread SELECTs the row into the session, the handler checks
   and modifies that object, and session.commit() later flushes an UPDATE of
   the attributes the handler changed.  Nothing locks the row in between. *)

Requests == 1 .. MaxRequests

Idle == [pc |-> "idle"]

Mutations == {"update", "archive", "restore", "delete"}

(* include_deleted of the handler's _get_thread call *)
IncludeDeleted(op) == op \in Lifecycle

(* the statuses the handler's check lets through *)
Allowed(op) ==
    CASE op = "archive" -> {STATUS_ACTIVE}
      [] op = "restore" -> {STATUS_ARCHIVED}
      [] op = "delete" -> Statuses \ {STATUS_DELETED}
      [] op = "update" -> Statuses

(* the loaded object after the handler's assignments *)
Modified(op, thread, update_data, at) ==
    CASE op = "archive" ->
            [thread EXCEPT !.status = STATUS_ARCHIVED, !.updated_at = now(at)]
      [] op = "restore" ->
            [thread EXCEPT !.status = STATUS_ACTIVE, !.updated_at = now(at)]
      [] op = "delete" ->
            [thread EXCEPT !.status = STATUS_DELETED, !.updated_at = now(at)]
      [] op = "update" ->
            [thread EXCEPT !.title = update_data["title"],
                           !.updated_at = now(at)]

(* session.commit(): UPDATE conversation_thread SET <the attributes whose
   value differs from the loaded one> WHERE thread_id = <primary key> *)
Flush(current, loaded, object) ==
    [c \in DOMAIN current |->
        IF object[c] # loaded[c] THEN object[c] ELSE current[c]]

(* the handler up to its session.commit() *)
Load(req, op, user, thread_id, update_data, at) ==
    LET found == _get_thread(user, thread_id, IncludeDeleted(op))
    IN  /\ sessions[req].pc = "idle"
        /\ op = "update" \/ update_data = <<>>
        /\ clock' = at
        /\ IF found = {}
           THEN /\ last' = Call(op, user, thread_id, NotFound, {}, {})
                /\ UNCHANGED sessions
           ELSE IF one(found).status \notin Allowed(op)
           THEN /\ last' = Call(op, user, thread_id, Conflict, found, {})
                /\ UNCHANGED sessions
           ELSE IF op = "update" /\ DOMAIN update_data = {}
           THEN /\ last' = Call(op, user, thread_id, OK, found, found)
                /\ UNCHANGED sessions
           ELSE /\ sessions' = [sessions EXCEPT ![req] =
                        [pc |-> "dirty", op |-> op, user |-> user,
                         loaded |-> one(found),
                         object |-> Modified(op, one(found), update_data, at)]]
                /\ UNCHANGED last
        /\ UNCHANGED <<threads, chat_message, tz, relay, artifact, disk>>

(* session.add(thread); session.commit(); session.refresh(thread) *)
Commit(req) ==
    LET s == sessions[req]
        current == one({r \in threads : r.thread_id = s.loaded.thread_id})
        new == Flush(current, s.loaded, s.object)
    IN  /\ s.pc = "dirty"
        /\ threads' = Replace(current, new)
        /\ last' = Call(s.op, s.user, new.thread_id, OK, {s.loaded}, {new})
        /\ sessions' = [sessions EXCEPT ![req] = Idle]
        /\ UNCHANGED <<chat_message, clock, tz, relay, artifact, disk>>

InitConc ==
    /\ threads = {}
    /\ chat_message = <<>>
    /\ clock = 0
    /\ tz \in {-MaxTz, 0, MaxTz}
    /\ last = NoCall
    /\ sessions = [req \in Requests |-> Idle]
    /\ relay = NoRelay
    /\ artifact = {}
    /\ disk = NoDisk

NextConc ==
    \/ \E user \in Users, thread_id \in ThreadIds, at \in Instants :
          \E title \in Titles : create_thread(user, title, thread_id, at)
    \/ \E req \in Requests, op \in Mutations, user \in Users,
           thread_id \in ThreadIds, update_data \in Patches,
           at \in Instants :
          Load(req, op, user, thread_id, update_data, at)
    \/ \E req \in Requests : Commit(req)

SpecConc == InitConc /\ [][NextConc]_vars

(* C2: once the stored status of a thread is deleted, it is deleted in every
   later state, whatever the interleaving of the concurrent requests. *)
C2_DeletedIsTerminal ==
    [][\A r \in threads : \A n \in threads' :
            (n.thread_id = r.thread_id /\ r.status = STATUS_DELETED) =>
                n.status = STATUS_DELETED
    ]_vars

----------------------------------------------------------------------------
(* SpecStream: one chat_stream call, step by step, while threads are created
   and soft-deleted by other requests. *)

Bytes == {"x", "y"}

Chunks == UNION {[1 .. n -> Bytes] : n \in 0 .. MaxChunkLen}

UpstreamStatuses == {200, 404, 500}

(* resp.raise_for_status() raises for 4xx and 5xx *)
is_error(status) == status >= 400

Frame == <<threads, chat_message, clock, tz, last, sessions, artifact, disk>>

(* chat_stream with the check of archive/restore/delete: include_deleted *)
StreamHandler_include_deleted(user, thread_id) ==
    LET found == _get_thread(user, thread_id, TRUE)
    IN  /\ relay.pc = "none"
        /\ relay' = [relay EXCEPT
                !.user = user, !.thread_id = thread_id,
                !.check = IF found = {} THEN NotFound ELSE OK,
                !.pc = IF found = {} THEN "rejected" ELSE "returned"]
        /\ UNCHANGED Frame

(* chat_stream, lines 73-109: the thread check, then the StreamingResponse *)
StreamHandler(user, thread_id) ==
    LET found == _get_thread(user, thread_id, FALSE)
    IN  /\ relay.pc = "none"
        /\ relay' = [relay EXCEPT
                !.user = user, !.thread_id = thread_id,
                !.check = IF found = {} THEN NotFound ELSE OK,
                !.pc = IF found = {} THEN "rejected" ELSE "returned"]
        /\ UNCHANGED Frame

(* the response starts iterating gen(): async with httpx.AsyncClient *)
GenStart ==
    /\ relay.pc = "returned"
    /\ relay' = [relay EXCEPT !.pc = "client"]
    /\ UNCHANGED Frame

(* async with client.stream("POST", .../agent/chat): the request goes out;
   either no connection is made, or the response headers arrive *)
OpenUpstream ==
    /\ relay.pc = "client"
    /\ \/ relay' = [relay EXCEPT !.opens = @ + 1, !.pc = "error"]
       \/ \E status \in UpstreamStatuses :
            relay' = [relay EXCEPT !.opens = @ + 1, !.conn = TRUE,
                                   !.status = status, !.pc = "headers"]
    /\ UNCHANGED Frame

(* a relay that does not look at the upstream's status *)
RaiseForStatus_ignored ==
    /\ relay.pc = "headers"
    /\ relay' = [relay EXCEPT !.pc = "iter"]
    /\ UNCHANGED Frame

(* resp.raise_for_status(); raising leaves both "async with" blocks *)
RaiseForStatus ==
    /\ relay.pc = "headers"
    /\ relay' = IF is_error(relay.status)
                THEN [relay EXCEPT !.conn = FALSE, !.pc = "error"]
                ELSE [relay EXCEPT !.pc = "iter"]
    /\ UNCHANGED Frame

(* async for chunk in resp.aiter_bytes(): the next chunk arrives *)
(* a relay that reads ahead while the client is still taking a chunk *)
RecvChunk_prefetch ==
    /\ relay.pc \in {"iter", "yield"}
    /\ relay.nchunks < MaxChunks
    /\ \E chunk \in Chunks :
          relay' = [relay EXCEPT !.chunk = chunk,
                                 !.nchunks = @ + 1,
                                 !.received = @ \o chunk,
                                 !.pc = "chunk"]
    /\ UNCHANGED Frame

RecvChunk ==
    /\ relay.pc = "iter"
    /\ relay.nchunks < MaxChunks
    /\ \E chunk \in Chunks :
          relay' = [relay EXCEPT !.chunk = chunk,
                                 !.nchunks = @ + 1,
                                 !.received = @ \o chunk,
                                 !.pc = "chunk"]
    /\ UNCHANGED Frame

(* the upstream ends the body: the loop ends, both blocks are left *)
UpstreamEnd ==
    /\ relay.pc = "iter"
    /\ relay' = [relay EXCEPT !.conn = FALSE, !.pc = "done"]
    /\ UNCHANGED Frame

(* a relay that closes the response only after a complete body *)
UpstreamFail_leak ==
    /\ relay.pc = "iter"
    /\ relay' = [relay EXCEPT !.pc = "error"]
    /\ UNCHANGED Frame

(* the upstream fails while the body is read: aiter_bytes raises *)
UpstreamFail ==
    /\ relay.pc = "iter"
    /\ relay' = [relay EXCEPT !.conn = FALSE, !.pc = "error"]
    /\ UNCHANGED Frame

(* a relay that passes on only chunks of more than one byte *)
Yield_min_size ==
    /\ relay.pc = "chunk"
    /\ relay' = IF Len(relay.chunk) > 1
                THEN [relay EXCEPT !.emitted = @ \o relay.chunk,
                                   !.pc = "yield"]
                ELSE [relay EXCEPT !.chunk = <<>>, !.pc = "iter"]
    /\ UNCHANGED Frame

(* if chunk: yield chunk *)
Yield ==
    /\ relay.pc = "chunk"
    /\ relay' = IF relay.chunk # <<>>
                THEN [relay EXCEPT !.emitted = @ \o relay.chunk,
                                   !.pc = "yield"]
                ELSE [relay EXCEPT !.pc = "iter"]
    /\ UNCHANGED Frame

(* the client took the chunk: gen() is resumed after the yield *)
Resume ==
    /\ relay.pc = "yield"
    /\ relay' = [relay EXCEPT !.chunk = <<>>, !.pc = "iter"]
    /\ UNCHANGED Frame

(* the client disconnects.  Waiting in gen(), the cancellation is raised
   there and unwinds the "async with" blocks; before gen() started there is
   nothing to unwind; suspended at yield, gen() is left behind as it is *)
Disconnect ==
    /\ relay.pc \in {"returned", "client", "headers", "iter", "chunk", "yield"}
    /\ relay' = IF relay.pc = "yield"
                THEN [relay EXCEPT !.pc = "abandoned"]
                ELSE [relay EXCEPT !.conn = FALSE, !.pc = "cancelled"]
    /\ UNCHANGED Frame

(* the abandoned generator is closed by the event loop's finalizer:
   GeneratorExit at the yield leaves both "async with" blocks *)
Finalize ==
    /\ relay.pc = "abandoned"
    /\ relay' = [relay EXCEPT !.conn = FALSE, !.pc = "cancelled"]
    /\ UNCHANGED Frame

(* the relay reads no clock: the server is taken to run in UTC here *)
InitStream ==
    /\ threads = {}
    /\ chat_message = <<>>
    /\ clock = 0
    /\ tz = 0
    /\ last = NoCall
    /\ sessions = <<>>
    /\ relay = NoRelay
    /\ artifact = {}
    /\ disk = NoDisk

NextStream ==
    \/ \E user \in Users, thread_id \in ThreadIds, at \in Instants :
          \E title \in Titles :
              at <= MaxCalls /\ create_thread(user, title, thread_id, at)
    \/ \E user \in Users, thread_id \in ThreadIds, at \in Instants :
          at <= MaxCalls /\ delete_thread(user, thread_id, at)
    \/ \E user \in Users, thread_id \in ThreadIds :
          StreamHandler(user, thread_id)
    \/ GenStart
    \/ OpenUpstream
    \/ RaiseForStatus
    \/ RecvChunk
    \/ UpstreamEnd
    \/ UpstreamFail
    \/ Yield
    \/ Resume
    \/ Disconnect
    \/ Finalize

SpecStream == InitStream /\ [][NextStream]_vars

(* The event loop runs the finalizer of a generator that was left behind:
   the only step of the relay that waits for neither the upstream nor the
   client *)
SpecStreamFair == SpecStream /\ WF_vars(Finalize)

----------------------------------------------------------------------------
(* Properties of SpecStream *)


(* the handler's step of the stream call *)
HandlerStep == relay.pc = "none" /\ relay'.pc # "none"

(* C9: the stream call is rejected with NotFound exactly when, at its thread
   check, the caller owns no thread of that id that is not deleted; a
   rejected call never sends an upstream request, and an upstream request is
   sent only by a call whose own thread check has succeeded before. *)
C9_CheckBeforeUpstream ==
    /\ [](relay.check = NotFound => (relay.pc = "rejected" /\ relay.opens = 0))
    /\ [](relay.opens > 0 => relay.check = OK)
    /\ [][HandlerStep =>
            ((relay'.check = NotFound) <=>
                ({r \in OwnedRows(relay'.user, relay'.thread_id) :
                    r.status # STATUS_DELETED} = {}))
       ]_vars
    /\ [][relay'.opens > relay.opens =>
            (relay.check = OK /\ relay.pc = "client")
       ]_vars

(* C9 witness: a stream call on the caller's own deleted thread was
   rejected and sent nothing upstream *)
C9_Witness ==
    /\ relay.pc = "rejected"
    /\ relay.check = NotFound
    /\ relay.opens = 0
    /\ \E r \in threads :
          /\ r.thread_id = relay.thread_id
          /\ r.user_id = relay.user
          /\ r.status = STATUS_DELETED

(* C10: the bytes emitted to the client are at every point a prefix of the
   bytes received from the upstream, and the same bytes when the stream
   completes normally. *)
C10_ByteOrderPreserved ==
    /\ IsPrefix(relay.emitted, relay.received)
    /\ relay.pc = "done" => relay.emitted = relay.received

(* C10 witness: a stream completed after two chunks, one of them empty, and
   the client got the bytes of the other *)
C10_Witness ==
    /\ relay.pc = "done"
    /\ relay.nchunks = 2
    /\ Len(relay.received) = 1
    /\ relay.emitted = relay.received

(* C11: when no connection is made, or the upstream answers with a
   non-success status, the call emits no byte: from the response headers of
   a non-success answer gen() goes straight to the raise, before any chunk
   is read or yielded; a call sends at most one upstream request. *)
C11_NoBytesOnEarlyFailure ==
    /\ [](relay.opens <= 1)
    /\ []((relay.pc = "error" /\ (relay.status = 0 \/ relay.status >= 400)) =>
            (relay.emitted = <<>> /\ relay.nchunks = 0 /\ ~relay.conn))
    /\ [][(relay.pc = "headers" /\ relay.status >= 400 /\ relay' # relay) =>
            /\ relay'.pc \in {"error", "cancelled"}
            /\ relay'.nchunks = 0
            /\ relay'.emitted = <<>>
            /\ relay'.opens = relay.opens
       ]_vars

(* C11 witness: the upstream answered with an error status and the call
   ended with nothing emitted *)
C11_Witness ==
    /\ relay.pc = "error"
    /\ relay.status >= 400
    /\ relay.opens = 1
    /\ relay.emitted = <<>>

(* gen() is over, or has not entered "async with client.stream" *)
Outside == {"none", "rejected", "returned", "client",
            "done", "error", "cancelled"}

(* C12: the upstream connection of a call is released on every way out of
   gen(): when gen() has returned, raised or been unwound the connection is
   not held, and a generator left behind at its yield by a client that went
   away is closed, and its connection released, eventually. *)
C12_ConnectionReleased ==
    /\ [](relay.pc \in Outside => ~relay.conn)
    /\ (relay.pc = "abandoned") ~> (relay.pc = "cancelled" /\ ~relay.conn)

(* C12 witness: the client went away after a chunk was emitted and the
   connection is released *)
C12_Witness ==
    /\ relay.pc = "cancelled"
    /\ relay.opens = 1
    /\ Len(relay.emitted) >= 1
    /\ ~relay.conn

(* C13: the relay holds at most one chunk that was received and not yet
   forwarded (what was received is what was emitted, followed at most by the
   chunk in hand), and it takes the next chunk from the upstream only in the
   "async for" wait, when every chunk received before has been taken by the
   client. *)
C13_OneChunkInHand ==
    /\ [](\E held \in {<<>>, relay.chunk} :
              relay.received = relay.emitted \o held)
    /\ [][relay'.nchunks > relay.nchunks =>
            /\ relay.pc = "iter"
            /\ relay.received = relay.emitted
            /\ relay'.nchunks = relay.nchunks + 1
       ]_vars

(* C13 witness: a second chunk is in hand after the first was forwarded *)
C13_Witness ==
    /\ relay.pc = "chunk"
    /\ relay.nchunks = 2
    /\ relay.chunk # <<>>
    /\ Len(relay.emitted) >= 1
    /\ relay.received = relay.emitted \o relay.chunk

----------------------------------------------------------------------------
(* api/routes/artifacts.py: the storage sandbox.

   A path is its parts (pathlib's .parts without the leading "/") and
   whether it is absolute; a directory of the file system is the sequence
   of its parts from "/".  A str that names a path is written the same way,
   with the "." parts it may have: "" has no parts and is not absolute.
   An optional value (str | None, Path | None) is a set with at most one
   element. *)

Up == ".."
Dot == "."

(* "if text" on a str that names a path: only "" is false *)
nonempty(text) == text.abs \/ text.parts # <<>>

(* Path(text): pathlib drops the "." parts *)
Path(text) ==
    [abs |-> text.abs, parts |-> SelectSeq(text.parts, LAMBDA p : p # Dot)]

(* Path(...).name: the last part, "" when there is none *)
basename(path) ==
    IF path.parts = <<>> THEN "" ELSE path.parts[Len(path.parts)]

(* settings.ARTIFACTS_STORAGE_DIR when it is configured *)
Root == <<"srv">>

(* parts a request or a stored row can carry: "u1" is str(user.id) *)
Segments == {Up, Dot, "a", "u1", "srv"}

Paths(n) ==
    {[abs |-> abs, parts |-> parts] :
        abs \in BOOLEAN,
        parts \in UNION {[1 .. k -> Segments] : k \in 0 .. n}}

(* the symbolic links a run can leave below a user's directory *)
LinkNames == {"a"}

LinkTargets ==
    {<<"etc">>, Root} \cup {Root \o <<u>> : u \in Users}
                      \cup {Root \o <<u, "a">> : u \in Users}

Range(s) == {s[i] : i \in DOMAIN s}

Parent(dir) == IF dir = <<>> THEN <<>> ELSE SubSeq(dir, 1, Len(dir) - 1)

LinkAt(dir) == {l \in disk.links : l.path = dir}

(* base / other *)
Join(base, other) == IF other.abs THEN other.parts ELSE base \o other.parts

(* Path.resolve(): the parts are walked from "/"; ".." steps to the parent
   of the directory reached, a symbolic link is replaced by its target, a
   name that does not exist is kept *)
RECURSIVE realpath(_, _)
realpath(done, rest) ==
    IF rest = <<>>
    THEN done
    ELSE IF Head(rest) = Up
    THEN realpath(Parent(done), Tail(rest))
    ELSE LET here == Append(done, Head(rest))
         IN  IF LinkAt(here) # {}
             THEN realpath(one(LinkAt(here)).target, Tail(rest))
             ELSE realpath(here, Tail(rest))

resolve(parts) == realpath(<<>>, parts)

(* _resolve_artifact_path without the relative_to check of the sub-path *)
_resolve_artifact_path_sub_unchecked(user, path, file_path) ==
    IF disk.root = {}
    THEN {}
    ELSE LET root == resolve(one(disk.root))
             base_dir == resolve(root \o <<user>>)
             target_path == resolve(Join(base_dir, Path(path)))
         IN  IF ~IsPrefix(base_dir, target_path)
             THEN {}
             ELSE IF file_path # {} /\ nonempty(one(file_path))
             THEN LET subpath == Path(one(file_path))
                      target == resolve(Join(target_path, subpath))
                  IN  IF subpath.abs \/ Up \in Range(subpath.parts)
                      THEN {}
                      ELSE {target}
             ELSE {target_path}

(* _resolve_artifact_path without the ".." test of the sub-path's parts *)
_resolve_artifact_path_parts_unchecked(user, path, file_path) ==
    IF disk.root = {}
    THEN {}
    ELSE LET root == resolve(one(disk.root))
             base_dir == resolve(root \o <<user>>)
             target_path == resolve(Join(base_dir, Path(path)))
         IN  IF ~IsPrefix(base_dir, target_path)
             THEN {}
             ELSE IF file_path # {} /\ nonempty(one(file_path))
             THEN LET subpath == Path(one(file_path))
                      target == resolve(Join(target_path, subpath))
                  IN  IF subpath.abs
                      THEN {}
                      ELSE IF ~IsPrefix(base_dir, target)
                      THEN {}
                      ELSE {target}
             ELSE {target_path}

(* _resolve_artifact_path(artifact, current_user, file_path): path is
   artifact.path.  A file_path of "" is skipped by "if file_path"; one of
   "." has no parts and leaves the target as it is *)
_resolve_artifact_path(user, path, file_path) ==
    IF disk.root = {}
    THEN {}
    ELSE LET root == resolve(one(disk.root))
             base_dir == resolve(root \o <<user>>)
             target_path == resolve(Join(base_dir, Path(path)))
         IN  IF ~IsPrefix(base_dir, target_path)
             THEN {}
             ELSE IF file_path # {} /\ nonempty(one(file_path))
             THEN LET subpath == Path(one(file_path))
                      target == resolve(Join(target_path, subpath))
                  IN  IF subpath.abs \/ Up \in Range(subpath.parts)
                      THEN {}
                      ELSE IF ~IsPrefix(base_dir, target)
                      THEN {}
                      ELSE {target}
             ELSE {target_path}

----------------------------------------------------------------------------
(* SpecPath: _resolve_artifact_path on every path and sub-path, over a
   storage in which runs have left symbolic links.  The function keeps
   nothing from one call to the next: a behaviour has one call *)

NoStorage == <<threads, chat_message, clock, tz, sessions, relay, artifact>>

(* a run leaves a link below a user's directory.  The target is a real
   directory: it does not lead through a link *)
symlink(user, name, target) ==
    LET path == Root \o <<user, name>>
    IN  /\ disk.root # {}
        /\ LinkAt(path) = {}
        /\ ~IsPrefix(path, target)
        /\ \A l \in disk.links :
              ~IsPrefix(l.path, target) /\ ~IsPrefix(path, l.target)
        /\ disk' = [disk EXCEPT
                        !.links = @ \cup {[path |-> path, target |-> target]}]
        /\ UNCHANGED <<last, NoStorage>>

(* one call of _resolve_artifact_path and what it returned *)
Resolve(user, path, file_path) ==
    /\ last' = [op |-> "resolve", user |-> user, path |-> path,
                file_path |-> file_path,
                out |-> _resolve_artifact_path(user, path, file_path)]
    /\ UNCHANGED <<disk, NoStorage>>

InitPath ==
    /\ threads = {}
    /\ chat_message = <<>>
    /\ clock = 0
    /\ tz = 0
    /\ last = NoCall
    /\ sessions = <<>>
    /\ relay = NoRelay
    /\ artifact = {}
    /\ disk \in {NoDisk, [NoDisk EXCEPT !.root = {Root}]}

NextPath ==
    \/ \E user \in Users, name \in LinkNames, target \in LinkTargets :
          symlink(user, name, target)
    \/ /\ last = NoCall
       /\ \E user \in Users, path \in Paths(MaxPathLen),
              file_path \in {{}} \cup {{p} : p \in Paths(MaxSubLen)} :
             Resolve(user, path, file_path)

SpecPath == InitPath /\ [][NextPath]_vars

(* C20: a path returned by _resolve_artifact_path is the caller's directory
   Root/str(user.id) or lies below it, is in no other user's directory, and
   is canonical in the storage of the call: it has no ".." and leads through
   no symbolic link. *)
C20_ResolveContained ==
    /\ []((last.op = "resolve" /\ last.out # {}) =>
            LET target == one(last.out)
            IN  /\ IsPrefix(Root \o <<last.user>>, target)
                /\ \A other \in Users \ {last.user} :
                      ~IsPrefix(Root \o <<other>>, target)
                /\ Up \notin Range(target))
    /\ [][(last' # last /\ last'.out # {}) =>
            \A l \in disk.links : ~IsPrefix(l.path, one(last'.out))
       ]_vars

(* C20 witness: a path was returned for a stored path with ".." and a
   sub-path, in a storage where the caller's directory has a link *)
C20_Witness ==
    /\ last.op = "resolve"
    /\ last.out # {}
    /\ Up \in Range(last.path.parts)
    /\ last.file_path # {}
    /\ one(last.file_path).parts # <<>>
    /\ \E l \in disk.links : IsPrefix(Root \o <<last.user>>, l.path)

(* the sub-path of this call is absolute or has a ".." part *)
SubRejected(call) ==
    \E f \in call.file_path : f.abs \/ Up \in Range(f.parts)

(* the artifact path of the call that this step makes, made canonical in
   the storage of the call, is not the caller's directory or below it *)
PathLeavesRoot ==
    LET base == Root \o <<last'.user>>
    IN  ~IsPrefix(base, resolve(Join(base, Path(last'.path))))

(* C21 as claimed: _resolve_artifact_path returns None for every artifact
   path that has a ".." part, and for every sub-path that is absolute or has
   a ".." part, wherever the path would lead. *)
C21_NullOnAnyDotDot ==
    (last.op = "resolve" /\ disk.root # {} /\
        (Up \in Range(last.path.parts) \/ SubRejected(last)))
    => last.out = {}

(* C21 as amended: _resolve_artifact_path returns None for every artifact
   path whose ".." parts (or links) lead out of the caller's directory, and
   for every sub-path that is absolute or has a ".." part, also when the
   sub-path would lead to a place inside the caller's directory. *)
C21_NullOnEscapeOrBadSub ==
    [][(last' # last /\ disk.root # {} /\
           (PathLeavesRoot \/ SubRejected(last')))
       => last'.out = {}
    ]_vars

(* C21 witness: None was returned for a sub-path ".." below an artifact
   path without "..": the place it names is the caller's directory *)
C21_Witness ==
    /\ last.op = "resolve"
    /\ disk.root # {}
    /\ disk.links = {}
    /\ last.path = [abs |-> FALSE, parts |-> <<"a">>]
    /\ last.file_path = {[abs |-> FALSE, parts |-> <<Up>>]}
    /\ last.out = {}

----------------------------------------------------------------------------
(* SpecRun: messages, artifacts and the run_id that correlates them; one
   request at a time, the storage root not configured *)

(* "if value" on a str | None *)
truthy(value) == value \notin {None, ""}

(* the rows in every order *)
Orderings(rows) ==
    {s \in [1 .. Cardinality(rows) -> rows] :
        \A i, j \in DOMAIN s : i # j => s[i] # s[j]}

(* ORDER BY created_at ASC: rows of equal created_at come in any order *)
Ascending(rows) ==
    {s \in Orderings(rows) :
        \A i, j \in DOMAIN s : i < j => s[i].created_at <= s[j].created_at}

(* ORDER BY created_at DESC *)
Descending(rows) ==
    {s \in Orderings(rows) :
        \A i, j \in DOMAIN s : i < j => s[i].created_at >= s[j].created_at}

(* ORDER BY updated_at DESC *)
LatestFirst(rows) ==
    {s \in Orderings(rows) :
        \A i, j \in DOMAIN s : i < j => s[i].updated_at >= s[j].updated_at}

(* .offset(skip).limit(limit) *)
Page(s, skip, limit) ==
    SubSeq(s, skip + 1, IF Len(s) < skip + limit THEN Len(s) ELSE skip + limit)

(* skip and limit, left at their defaults *)
Skips == {0}
Limits == {100}

(* the path of the artifacts of SpecRun *)
SomePath == [abs |-> FALSE, parts |-> <<"a">>]

(* ArtifactCreate: the columns of the payload that the handlers look at.
   The artifacts of SpecRun are files *)
Items ==
    [thread_id : ThreadIds, run_id : RunIds, is_folder : {FALSE},
     path : {SomePath}]

ArtifactBatches == UNION {[1 .. n -> Items] : n \in 0 .. MaxArtifacts}

RunRank(run_id) ==
    CASE run_id = None -> 0
      [] run_id = "" -> 1
      [] OTHER -> 2

(* The payloads of create_messages, up to the order of their messages: the
   rows of one payload are stored at one instant *)
MessageBatches ==
    {b \in UNION {[1 .. n -> RunIds] : n \in 0 .. MaxItems} :
        \A i, j \in DOMAIN b : i < j => RunRank(b[i]) <= RunRank(b[j])}

(* an id that names no row *)
NoId == <<0, 0>>

(* GET /threads; last.payload is the count, skip and limit *)
list_threads(user, skip, limit, at) ==
    LET rows == {r \in threads :
                    r.user_id = user /\ r.status # STATUS_DELETED}
    IN  /\ clock' = at
        /\ \E s \in LatestFirst(rows) :
              last' = ListCall("list", user, "none", OK, {}, {},
                               <<Cardinality(rows), skip, limit>>,
                               Page(s, skip, limit))
        /\ UNCHANGED <<threads, chat_message, tz, Others>>

(* get_messages whose artifact statement has no thread_id condition *)
get_messages_any_thread(user, thread_id, at) ==
    LET found == _get_thread(user, thread_id, FALSE)
        selected == {m \in Range(chat_message) :
                        m.thread_id = thread_id /\ m.user_id = user}
        run_ids == {m.run_id : m \in {x \in selected : truthy(x.run_id)}}
        artifacts == IF run_ids # {}
                     THEN {a \in artifact :
                              a.user_id = user /\ a.run_id \in run_ids}
                     ELSE {}
        artifacts_by_run(key) ==
            {a \in artifacts : truthy(a.run_id) /\ a.run_id = key}
        response(messages) ==
            [i \in DOMAIN messages |->
                [message |-> messages[i],
                 artifacts |-> artifacts_by_run(
                    IF truthy(messages[i].run_id)
                    THEN messages[i].run_id ELSE "")]]
    IN  /\ clock' = at
        /\ IF found = {}
           THEN last' = Call("messages", user, thread_id, NotFound, {}, {})
           ELSE \E messages \in Ascending(selected) :
                  last' = ListCall("messages", user, thread_id, OK, found, {},
                                   <<>>, response(messages))
        /\ UNCHANGED <<threads, chat_message, tz, Others>>

(* GET /messages: the messages of the thread, each with the artifacts of
   its run.  The artifact lists come without ORDER BY: they are sets *)
get_messages(user, thread_id, at) ==
    LET found == _get_thread(user, thread_id, FALSE)
        selected == {m \in Range(chat_message) :
                        m.thread_id = thread_id /\ m.user_id = user}
        run_ids == {m.run_id : m \in {x \in selected : truthy(x.run_id)}}
        artifacts == IF run_ids # {}
                     THEN {a \in artifact :
                              /\ a.user_id = user
                              /\ a.thread_id = thread_id
                              /\ a.run_id \in run_ids}
                     ELSE {}
        artifacts_by_run(key) ==
            {a \in artifacts : truthy(a.run_id) /\ a.run_id = key}
        response(messages) ==
            [i \in DOMAIN messages |->
                [message |-> messages[i],
                 artifacts |-> artifacts_by_run(
                    IF truthy(messages[i].run_id)
                    THEN messages[i].run_id ELSE "")]]
    IN  /\ clock' = at
        /\ IF found = {}
           THEN last' = Call("messages", user, thread_id, NotFound, {}, {})
           ELSE \E messages \in Ascending(selected) :
                  last' = ListCall("messages", user, thread_id, OK, found, {},
                                   <<>>, response(messages))
        /\ UNCHANGED <<threads, chat_message, tz, Others>>

(* _get_artifact without the user_id test *)
_get_artifact_any_owner(user, artifact_id) ==
    {a \in artifact : a.id = artifact_id}

(* _get_artifact: the row, empty means 404 *)
_get_artifact(user, artifact_id) ==
    {a \in artifact : a.id = artifact_id /\ a.user_id = user}

(* GET /artifacts; thread_id is the optional query parameter *)
read_artifacts(user, thread_id, skip, limit, at) ==
    LET rows == {a \in artifact :
                    /\ a.user_id = user
                    /\ \A t \in thread_id : truthy(t) => a.thread_id = t}
    IN  /\ clock' = at
        /\ \E s \in Descending(rows) :
              last' = ListCall("artifacts", user, "none", OK, {}, {},
                               <<Cardinality(rows)>>, Page(s, skip, limit))
        /\ UNCHANGED <<threads, chat_message, tz, Others>>

(* POST /artifacts/bulk; artifacts is the payload's list *)
create_artifacts(user, artifacts, at) ==
    LET rows == [i \in 1 .. Len(artifacts) |->
                    [id |-> <<at, i>>, user_id |-> user,
                     thread_id |-> artifacts[i].thread_id,
                     run_id |-> artifacts[i].run_id,
                     is_folder |-> artifacts[i].is_folder,
                     path |-> artifacts[i].path,
                     created_at |-> utcnow(at)]]
    IN  /\ clock' = at
        /\ artifact' = artifact \cup Range(rows)
        /\ last' = ListCall("create_artifacts", user, "none", OK, {}, {},
                            artifacts, rows)
        /\ UNCHANGED <<threads, chat_message, tz, sessions, relay, disk>>

(* DELETE /artifacts/{artifact_id} *)
delete_artifact(user, artifact_id, at) ==
    LET found == _get_artifact(user, artifact_id)
    IN  /\ clock' = at
        /\ artifact' = artifact \ found
        /\ last' = ListCall("delete_artifact", user, "none",
                            IF found = {} THEN NotFound ELSE OK,
                            found, {}, <<artifact_id>>, <<>>)
        /\ UNCHANGED <<threads, chat_message, tz, sessions, relay, disk>>

(* filename = Path(text).name or f"{id}{ext}" *)
Filename(text, id, ext) ==
    IF basename(Path(text)) # ""
    THEN [name |-> basename(Path(text)), id |-> {}, ext |-> ""]
    ELSE [name |-> "", id |-> {id}, ext |-> ext]

(* download_artifact answering 404 when no path was resolved *)
download_artifact_unresolved_404(user, artifact_id, file_path, at) ==
    LET found == _get_artifact(user, artifact_id)
        row == one(found)
        candidate == _resolve_artifact_path(user, row.path, file_path)
        supplied == file_path # {} /\ nonempty(one(file_path))
        served == IF supplied THEN one(file_path) ELSE row.path
    IN  /\ clock' = at
        /\ last' =
              IF found = {}
              THEN ListCall("download", user, "none", NotFound, {}, {},
                            <<artifact_id, file_path>>, <<>>)
              ELSE IF candidate # {} /\ one(candidate) \in disk.files
              THEN ListCall("download", user, "none", OK, found, found,
                            <<artifact_id, file_path>>,
                            <<"file", one(candidate),
                              Filename(served, row.id, "")>>)
              ELSE IF candidate = {} \/ (row.is_folder /\ supplied)
              THEN ListCall("download", user, "none", NotFound, found, {},
                            <<artifact_id, file_path>>, <<>>)
              ELSE ListCall("download", user, "none", OK, found, found,
                            <<artifact_id, file_path>>,
                            <<"metadata", <<>>,
                              Filename(row.path, row.id, ".json")>>)
        /\ UNCHANGED <<threads, chat_message, tz, Others>>

(* download_artifact answering 404 for every folder without a file *)
download_artifact_miss_404(user, artifact_id, file_path, at) ==
    LET found == _get_artifact(user, artifact_id)
        row == one(found)
        candidate == _resolve_artifact_path(user, row.path, file_path)
        supplied == file_path # {} /\ nonempty(one(file_path))
        served == IF supplied THEN one(file_path) ELSE row.path
    IN  /\ clock' = at
        /\ last' =
              IF found = {}
              THEN ListCall("download", user, "none", NotFound, {}, {},
                            <<artifact_id, file_path>>, <<>>)
              ELSE IF candidate # {} /\ one(candidate) \in disk.files
              THEN ListCall("download", user, "none", OK, found, found,
                            <<artifact_id, file_path>>,
                            <<"file", one(candidate),
                              Filename(served, row.id, "")>>)
              ELSE IF row.is_folder
              THEN ListCall("download", user, "none", NotFound, found, {},
                            <<artifact_id, file_path>>, <<>>)
              ELSE ListCall("download", user, "none", OK, found, found,
                            <<artifact_id, file_path>>,
                            <<"metadata", <<>>,
                              Filename(row.path, row.id, ".json")>>)
        /\ UNCHANGED <<threads, chat_message, tz, Others>>

(* GET /artifacts/{artifact_id}/download: the file, or the JSON metadata of
   the artifact when no file is found.  out is the kind of the body, the
   file sent and the filename of the Content-Disposition header *)
download_artifact(user, artifact_id, file_path, at) ==
    LET found == _get_artifact(user, artifact_id)
        row == one(found)
        candidate == _resolve_artifact_path(user, row.path, file_path)
        supplied == file_path # {} /\ nonempty(one(file_path))
        served == IF supplied THEN one(file_path) ELSE row.path
    IN  /\ clock' = at
        /\ last' =
              IF found = {}
              THEN ListCall("download", user, "none", NotFound, {}, {},
                            <<artifact_id, file_path>>, <<>>)
              ELSE IF candidate # {} /\ one(candidate) \in disk.files
              THEN ListCall("download", user, "none", OK, found, found,
                            <<artifact_id, file_path>>,
                            <<"file", one(candidate),
                              Filename(served, row.id, "")>>)
              ELSE IF row.is_folder /\ supplied
              THEN ListCall("download", user, "none", NotFound, found, {},
                            <<artifact_id, file_path>>, <<>>)
              ELSE ListCall("download", user, "none", OK, found, found,
                            <<artifact_id, file_path>>,
                            <<"metadata", <<>>,
                              Filename(row.path, row.id, ".json")>>)
        /\ UNCHANGED <<threads, chat_message, tz, Others>>

(* list_artifact_files without the is_dir() test of the folder *)
list_artifact_files_dir_unchecked(user, artifact_id, at) ==
    LET found == _get_artifact(user, artifact_id)
        folder_path == _resolve_artifact_path(user, one(found).path, {})
        files == {f \in disk.files : Parent(f) = one(folder_path)}
    IN  /\ clock' = at
        /\ last' =
              IF found = {}
              THEN ListCall("files", user, "none", NotFound, {}, {},
                            <<artifact_id>>, <<>>)
              ELSE IF ~one(found).is_folder
              THEN ListCall("files", user, "none", BadRequest, found, {},
                            <<artifact_id>>, <<>>)
              ELSE IF folder_path = {}
              THEN ListCall("files", user, "none", NotFound, found, {},
                            <<artifact_id>>, <<>>)
              ELSE ListCall("files", user, "none", OK, found, found,
                            <<artifact_id>>,
                            <<{f[Len(f)] : f \in files}>>)
        /\ UNCHANGED <<threads, chat_message, tz, Others>>

(* GET /artifacts/{artifact_id}/files without prefix and suffix: the names
   of the files of the folder; a sorted list of names is given by its set *)
list_artifact_files(user, artifact_id, at) ==
    LET found == _get_artifact(user, artifact_id)
        folder_path == _resolve_artifact_path(user, one(found).path, {})
        files == {f \in disk.files : Parent(f) = one(folder_path)}
    IN  /\ clock' = at
        /\ last' =
              IF found = {}
              THEN ListCall("files", user, "none", NotFound, {}, {},
                            <<artifact_id>>, <<>>)
              ELSE IF ~one(found).is_folder
              THEN ListCall("files", user, "none", BadRequest, found, {},
                            <<artifact_id>>, <<>>)
              ELSE IF folder_path = {} \/ one(folder_path) \notin disk.dirs
              THEN ListCall("files", user, "none", NotFound, found, {},
                            <<artifact_id>>, <<>>)
              ELSE ListCall("files", user, "none", OK, found, found,
                            <<artifact_id>>,
                            <<{f[Len(f)] : f \in files}>>)
        /\ UNCHANGED <<threads, chat_message, tz, Others>>

ArtifactIds == {a.id : a \in artifact} \cup {NoId}

InitRun ==
    /\ threads = {}
    /\ chat_message = <<>>
    /\ clock = 0
    /\ tz = 0
    /\ last = NoCall
    /\ sessions = <<>>
    /\ relay = NoRelay
    /\ artifact = {}
    /\ disk = NoDisk

ReadOps ==
    {"get", "list", "messages", "artifacts", "download", "files", "stream"}

(* A GET handler, and a request that is refused, read no clock and leave
   every table as it is: what can follow them can follow the state before
   them, so a behaviour ends with its first read or refusal *)
Open == last.op \notin ReadOps /\ last.answer \in {"none", OK}

(* a read is served at the instant of the request before it *)
Reads == {c \in {clock} : Open}

(* the other requests come at later instants *)
Writes == {c \in Instants : c <= MaxWrites /\ Open}

NextRun ==
    \/ \E user \in Users, thread_id \in ThreadIds, at \in Writes :
          \E title \in Titles : create_thread(user, title, thread_id, at)
    \/ \E user \in Users, thread_id \in ThreadIds, at \in Writes :
          \E messages \in MessageBatches :
              /\ Len(chat_message) + Len(messages) <= MaxRows
              /\ create_messages(user, thread_id, messages, at)
    \/ \E user \in Users, thread_id \in ThreadIds, at \in Reads :
          get_messages(user, thread_id, at)
    \/ \E user \in Users, at \in Writes :
          \E artifacts \in ArtifactBatches :
              /\ Cardinality(artifact) + Len(artifacts) <= MaxArtifacts
              /\ create_artifacts(user, artifacts, at)

SpecRun == InitRun /\ [][NextRun]_vars

----------------------------------------------------------------------------
(* SpecTenant: every handler of chat.py and artifacts.py that reads or
   writes a row, two identities, one request at a time *)

(* SpecTenant: the payloads carry no run_id or the run_id "r1" *)
TenantMessages == {b \in MessageBatches : \A i \in DOMAIN b : b[i] # ""}

TenantArtifacts ==
    {b \in ArtifactBatches : \A i \in DOMAIN b : b[i].run_id # ""}

NextTenant ==
    \/ \E user \in Users, thread_id \in ThreadIds, at \in Writes :
          \E title \in Titles : create_thread(user, title, thread_id, at)
    \/ \E user \in Users, thread_id \in ThreadIds, at \in Reads :
          get_thread(user, thread_id, at)
    \/ \E user \in Users, skip \in Skips, limit \in Limits,
           at \in Reads :
          list_threads(user, skip, limit, at)
    \/ \E user \in Users, thread_id \in ThreadIds, at \in Writes :
          \E update_data \in Patches :
              update_thread(user, thread_id, update_data, at)
    \/ \E user \in Users, thread_id \in ThreadIds, at \in Writes :
          archive_thread(user, thread_id, at)
    \/ \E user \in Users, thread_id \in ThreadIds, at \in Writes :
          restore_thread(user, thread_id, at)
    \/ \E user \in Users, thread_id \in ThreadIds, at \in Writes :
          delete_thread(user, thread_id, at)
    \/ \E user \in Users, thread_id \in ThreadIds, at \in Writes :
          \E messages \in TenantMessages :
              /\ Len(messages) <= MaxBatch
              /\ Len(chat_message) + Len(messages) <= MaxMessages
              /\ create_messages(user, thread_id, messages, at)
    \/ \E user \in Users, thread_id \in ThreadIds, at \in Reads :
          get_messages(user, thread_id, at)
    \/ \E user \in Users, at \in Writes :
          \E artifacts \in TenantArtifacts :
              /\ Cardinality(artifact) + Len(artifacts) <= MaxArtifacts
              /\ create_artifacts(user, artifacts, at)
    \/ \E user \in Users, skip \in Skips, limit \in Limits,
           at \in Reads :
          \E thread_id \in {{}} \cup {{t} : t \in ThreadIds} :
              read_artifacts(user, thread_id, skip, limit, at)
    \/ \E user \in Users, at \in Writes :
          \E artifact_id \in ArtifactIds :
              delete_artifact(user, artifact_id, at)
    \/ \E user \in Users, at \in Reads :
          \E artifact_id \in ArtifactIds,
             file_path \in {{}, {SomePath}} :
              download_artifact(user, artifact_id, file_path, at)
    \/ \E user \in Users, at \in Reads :
          \E artifact_id \in ArtifactIds :
              list_artifact_files(user, artifact_id, at)

SpecTenant == InitRun /\ [][NextTenant]_vars

----------------------------------------------------------------------------
(* Properties of create_messages, under Spec *)

(* the request of this step is a create_messages on a thread id of which
   its caller owns no row *)
RecordOnForeign ==
    /\ last'.op = "record"
    /\ OwnedRows(last'.user, last'.thread_id) = {}

(* C14, as stated: create_messages on a thread that the caller does not own
   is answered NotFound for every payload, the empty list included, stores
   no message and leaves every thread as it is. *)
C14_RejectsEveryList ==
    [][RecordOnForeign =>
            /\ last'.answer = NotFound
            /\ chat_message' = chat_message
            /\ threads' = threads
    ]_vars

(* C14, amended: create_messages on a thread that the caller does not own
   is answered NotFound for every payload that is not empty; an empty
   payload is answered with an empty list before the thread is looked at.
   Either way no message is stored and every thread is left as it is. *)
C14_RejectsNonEmptyList ==
    [][RecordOnForeign =>
            /\ last'.payload # <<>> => last'.answer = NotFound
            /\ last'.payload = <<>> => (last'.answer = OK /\ last'.out = <<>>)
            /\ chat_message' = chat_message
            /\ threads' = threads
    ]_vars

(* C14 witness: a payload of one message for another identity's thread was
   answered NotFound *)
C14_Witness ==
    /\ last.op = "record"
    /\ last.payload # <<>>
    /\ last.answer = NotFound
    /\ \E r \in threads :
          /\ r.thread_id = last.thread_id
          /\ r.user_id # last.user
          /\ r.status # STATUS_DELETED

(* C19: every stored chat message names, by its thread_id, a stored thread
   whose owner is the owner of the message. *)
C19_MessageInOwnedThread ==
    \A i \in DOMAIN chat_message :
        \E t \in threads :
            /\ t.thread_id = chat_message[i].thread_id
            /\ t.user_id = chat_message[i].user_id

(* C19 witness: a message is stored and its thread was deleted afterwards *)
C19_Witness ==
    /\ chat_message # <<>>
    /\ \E t \in threads :
          /\ t.thread_id = chat_message[1].thread_id
          /\ t.user_id = chat_message[1].user_id
          /\ t.status = STATUS_DELETED

----------------------------------------------------------------------------
(* Properties of SpecRun and SpecTenant.  Every step is one request: last'
   is that request and its answer, the unprimed variables are the tables
   before it. *)

(* C15: create_messages with an empty payload on a thread that its caller
   can use, and create_artifacts with an empty payload, are answered OK
   with an empty list and leave every table, the thread's updated_at
   included, as it is. *)
C15_EmptyListNoOp ==
    [][/\ (/\ last'.op = "record"
           /\ last'.payload = <<>>
           /\ _get_thread(last'.user, last'.thread_id, FALSE) # {}) =>
                /\ last'.answer = OK
                /\ last'.out = <<>>
                /\ threads' = threads
                /\ chat_message' = chat_message
                /\ artifact' = artifact
       /\ (last'.op = "create_artifacts" /\ last'.payload = <<>>) =>
                /\ last'.answer = OK
                /\ last'.out = <<>>
                /\ threads' = threads
                /\ chat_message' = chat_message
                /\ artifact' = artifact
    ]_vars

(* C15 witness: an empty payload was recorded on a thread of the caller
   that holds a message and has the stamp of that message *)
C15_Witness ==
    /\ last.op = "record"
    /\ last.payload = <<>>
    /\ last.answer = OK
    /\ chat_message # <<>>
    /\ \E r \in _get_thread(last.user, last.thread_id, FALSE) :
          r.updated_at < clock

NotNull(run_id) == run_id # None

(* The answer of this step's get_messages: all messages of the caller in
   the thread, in ascending created_at, each with the caller's artifacts of
   the thread that carry its run_id when HasRun holds of it, and with none
   otherwise *)
ListedWithArtifacts(HasRun(_)) ==
    (last'.op = "messages" /\ last'.answer = OK) =>
        LET out == last'.out
            mine == {m \in Range(chat_message) :
                        /\ m.user_id = last'.user
                        /\ m.thread_id = last'.thread_id}
            OfRun(m) == {a \in artifact :
                            /\ a.user_id = last'.user
                            /\ a.thread_id = last'.thread_id
                            /\ a.run_id = m.run_id}
        IN  /\ Len(out) = Cardinality(mine)
            /\ {out[i].message : i \in DOMAIN out} = mine
            /\ \A i, j \in DOMAIN out :
                  i < j =>
                    out[i].message.created_at <= out[j].message.created_at
            /\ \A i \in DOMAIN out :
                  out[i].artifacts = IF HasRun(out[i].message.run_id)
                                     THEN OfRun(out[i].message)
                                     ELSE {}
            /\ \A i, j \in DOMAIN out :
                  out[i].message.run_id = out[j].message.run_id =>
                    out[i].artifacts = out[j].artifacts

(* C17, as stated: a message is paired with the artifacts of its run
   whenever its run_id is not null. *)
C17_PairedByNonNullRunId == [][ListedWithArtifacts(NotNull)]_vars

(* C17, amended: a message is paired with the artifacts of its run whenever
   its run_id is neither null nor the empty string; a message whose run_id
   is null or empty is paired with the empty list, whatever artifacts carry
   an empty run_id. *)
C17_PairedByNonEmptyRunId == [][ListedWithArtifacts(truthy)]_vars

(* C17 witness: two messages of one run were listed, each with the one
   artifact of that run *)
C17_Witness ==
    /\ last.op = "messages"
    /\ last.answer = OK
    /\ Len(last.out) = 2
    /\ last.out[1].message.run_id = "r1"
    /\ last.out[2].message.run_id = "r1"
    /\ last.out[1].artifacts # {}
    /\ last.out[1].artifacts = last.out[2].artifacts

(* C18: whatever an identity asks for, every thread, message and artifact in
   the answer is its own, and every row of another identity is after the
   request what it was before it; a row that the request adds belongs to
   the caller. *)
C18_TenantIsolation ==
    [][LET caller == last'.user
       IN  /\ \A r \in last'.ret : r.user_id = caller
           /\ last'.op \in {"list", "artifacts"} =>
                 \A i \in DOMAIN last'.out : last'.out[i].user_id = caller
           /\ last'.op = "messages" =>
                 \A i \in DOMAIN last'.out :
                     /\ last'.out[i].message.user_id = caller
                     /\ \A a \in last'.out[i].artifacts : a.user_id = caller
           /\ \A r \in threads : r.user_id # caller => r \in threads'
           /\ \A r \in threads' \ threads : r.user_id = caller
           /\ \A i \in DOMAIN chat_message :
                 chat_message[i].user_id # caller =>
                     /\ i \in DOMAIN chat_message'
                     /\ chat_message'[i] = chat_message[i]
           /\ \A i \in DOMAIN chat_message' \ DOMAIN chat_message :
                 chat_message'[i].user_id = caller
           /\ \A a \in artifact : a.user_id # caller => a \in artifact'
           /\ \A a \in artifact' \ artifact : a.user_id = caller
    ]_vars

(* C18 witness: the caller listed a message of run "r1" in its thread
   without the artifact that another identity stored under that thread and
   that run *)
C18_Witness ==
    /\ last.op = "messages"
    /\ last.answer = OK
    /\ \E i \in DOMAIN last.out :
          /\ last.out[i].message.run_id = "r1"
          /\ last.out[i].artifacts = {}
    /\ \E a \in artifact :
          /\ a.user_id # last.user
          /\ a.thread_id = last.thread_id
          /\ a.run_id = "r1"

----------------------------------------------------------------------------
(* SpecBulk: create_messages and create_artifacts step by step, several
   requests in flight.  A session collects the rows that the handler adds;
   the tables are what every other request can see *)

(* the handler returned or raised before its loop; a request is served
   once *)
Returned == [pc |-> "returned", op |-> "none", payload |-> <<>>,
             pending |-> <<>>]

(* SpecBulk: the payloads, whose run_id plays no part here, carry none *)
PlainMessages == {b \in MessageBatches : \A i \in DOMAIN b : b[i] = None}

PlainArtifacts ==
    {b \in ArtifactBatches : \A i \in DOMAIN b : b[i].run_id = None}

(* the loop of the handler is over: every item of the payload was added *)
Added(s) == Len(s.pending) = Len(s.payload)

(* create_messages up to its loop: the early return of an empty payload,
   the thread check *)
BeginMessages(req, user, thread_id, messages, at) ==
    LET found == _get_thread(user, thread_id, FALSE)
    IN  /\ sessions[req].pc = "idle"
        /\ clock' = at
        /\ IF messages = <<>>
           THEN /\ last' = ListCall("record", user, thread_id, OK, {}, {},
                                    messages, <<>>)
                /\ sessions' = [sessions EXCEPT ![req] = Returned]
           ELSE IF found = {}
           THEN /\ last' = ListCall("record", user, thread_id, NotFound, {},
                                    {}, messages, <<>>)
                /\ sessions' = [sessions EXCEPT ![req] = Returned]
           ELSE /\ sessions' = [sessions EXCEPT ![req] =
                        [pc |-> "adding", op |-> "record", user |-> user,
                         thread_id |-> thread_id, payload |-> messages,
                         pending |-> <<>>]]
                /\ UNCHANGED last
        /\ UNCHANGED <<threads, chat_message, tz, relay, artifact, disk>>

(* create_artifacts up to its loop *)
BeginArtifacts(req, user, artifacts, at) ==
    /\ sessions[req].pc = "idle"
    /\ clock' = at
    /\ IF artifacts = <<>>
       THEN /\ last' = ListCall("create_artifacts", user, "none", OK, {}, {},
                                artifacts, <<>>)
            /\ sessions' = [sessions EXCEPT ![req] = Returned]
       ELSE /\ sessions' = [sessions EXCEPT ![req] =
                    [pc |-> "adding", op |-> "create_artifacts",
                     user |-> user, thread_id |-> "none",
                     payload |-> artifacts, pending |-> <<>>]]
            /\ UNCHANGED last
    /\ UNCHANGED <<threads, chat_message, tz, relay, artifact, disk>>

(* the row that model_validate builds of the next item of the payload *)
NextRow(req) ==
    LET s == sessions[req]
        i == Len(s.pending) + 1
    IN  IF s.op = "record"
        THEN [id |-> <<req, i>>, thread_id |-> s.thread_id,
              user_id |-> s.user, run_id |-> s.payload[i],
              created_at |-> utcnow(clock)]
        ELSE [id |-> <<req, i>>, user_id |-> s.user,
              thread_id |-> s.payload[i].thread_id,
              run_id |-> s.payload[i].run_id,
              is_folder |-> s.payload[i].is_folder,
              path |-> s.payload[i].path,
              created_at |-> utcnow(clock)]

(* a session in autocommit: every session.add is stored at once *)
Add_autocommit(req) ==
    LET s == sessions[req]
    IN  /\ s.pc = "adding"
        /\ ~Added(s)
        /\ sessions' = [sessions EXCEPT
                            ![req].pending = Append(@, NextRow(req))]
        /\ IF s.op = "record"
           THEN /\ chat_message' = Append(chat_message, NextRow(req))
                /\ UNCHANGED artifact
           ELSE /\ artifact' = artifact \cup {NextRow(req)}
                /\ UNCHANGED chat_message
        /\ UNCHANGED <<threads, clock, tz, last, relay, disk>>

(* one turn of the loop: model_validate and session.add(row); the row is
   pending in the session *)
Add(req) ==
    LET s == sessions[req]
    IN  /\ s.pc = "adding"
        /\ ~Added(s)
        /\ sessions' = [sessions EXCEPT
                            ![req].pending = Append(@, NextRow(req))]
        /\ UNCHANGED <<threads, chat_message, clock, tz, last, relay,
                       artifact, disk>>

(* after the loop: for create_messages the stamp of the thread, then
   session.commit(): one transaction inserts the pending rows and updates
   the thread's updated_at *)
CommitBulk(req) ==
    LET s == sessions[req]
        current == {r \in threads : r.thread_id = s.thread_id}
        stamped == {[r EXCEPT !.updated_at = utcnow(clock)] : r \in current}
    IN  /\ s.pc = "adding"
        /\ Added(s)
        /\ sessions' = [sessions EXCEPT ![req].pc = "committed"]
        /\ IF s.op = "record"
           THEN /\ chat_message' = chat_message \o s.pending
                /\ threads' = (threads \ current) \cup stamped
                /\ UNCHANGED artifact
                /\ last' = ListCall(s.op, s.user, s.thread_id, OK, current,
                                    stamped, s.payload, s.pending)
           ELSE /\ artifact' = artifact \cup Range(s.pending)
                /\ UNCHANGED <<threads, chat_message>>
                /\ last' = ListCall(s.op, s.user, s.thread_id, OK, {}, {},
                                    s.payload, s.pending)
        /\ UNCHANGED <<clock, tz, relay, disk>>

(* an exception in the loop or in session.commit(): the session is closed
   and its transaction rolled back *)
Rollback(req) ==
    LET s == sessions[req]
    IN  /\ s.pc = "adding"
        /\ sessions' = [sessions EXCEPT ![req].pc = "failed"]
        /\ last' = ListCall(s.op, s.user, s.thread_id, ServerError, {}, {},
                            s.payload, <<>>)
        /\ UNCHANGED <<threads, chat_message, clock, tz, relay, artifact,
                       disk>>

InitBulk ==
    /\ threads = {}
    /\ chat_message = <<>>
    /\ clock = 0
    /\ tz = 0
    /\ last = NoCall
    /\ sessions = [req \in Requests |-> Idle]
    /\ relay = NoRelay
    /\ artifact = {}
    /\ disk = NoDisk

NextBulk ==
    \/ \E user \in Users, thread_id \in ThreadIds, at \in Instants :
          \E title \in Titles :
              at <= MaxCalls /\ create_thread(user, title, thread_id, at)
    \/ \E req \in Requests, user \in Users, thread_id \in ThreadIds,
           at \in Instants :
          \E messages \in PlainMessages :
              BeginMessages(req, user, thread_id, messages, at)
    \/ \E req \in Requests, user \in Users, at \in Instants :
          \E artifacts \in PlainArtifacts :
              BeginArtifacts(req, user, artifacts, at)
    \/ \E req \in Requests : Add(req)
    \/ \E req \in Requests : CommitBulk(req)
    \/ \E req \in Requests : Rollback(req)

SpecBulk == InitBulk /\ [][NextBulk]_vars

(* the rows of the batch of a request that the tables hold *)
Stored(req) ==
    {r \in Range(sessions[req].pending) :
        IF sessions[req].op = "record"
        THEN r \in Range(chat_message)
        ELSE r \in artifact}

(* C16: in every state, the tables hold of a batch either no row (the
   request is in its loop, or it failed) or every row of its payload (it
   committed); the rows of a create_messages batch and the stamp of its
   thread are stored by one and the same step, and nothing else changes
   the tables of messages and artifacts. *)
C16_BulkAllOrNothing ==
    /\ [](\A req \in Requests :
            LET s == sessions[req]
            IN  /\ s.pc \in {"adding", "failed"} => Stored(req) = {}
                /\ s.pc = "committed" =>
                      /\ Added(s)
                      /\ Stored(req) = Range(s.pending)
                      /\ Cardinality(Stored(req)) = Len(s.payload))
    /\ [][(chat_message' # chat_message \/ artifact' # artifact) =>
            \E req \in Requests :
                /\ sessions[req].pc = "adding"
                /\ sessions'[req].pc = "committed"
                /\ sessions[req].op = "record" =>
                      \A t \in threads' :
                          t.thread_id = sessions[req].thread_id =>
                              t.updated_at = utcnow(clock)
       ]_vars

(* C16 witness: one batch of two messages is stored with the stamp of its
   thread, another request failed after it had added a row *)
C16_Witness ==
    \E req, other \in Requests :
        /\ sessions[req].pc = "committed"
        /\ sessions[req].op = "record"
        /\ Len(sessions[req].pending) = 2
        /\ \E t \in threads :
              /\ t.thread_id = sessions[req].thread_id
              /\ t.updated_at > t.created_at
        /\ sessions[other].pc = "failed"
        /\ sessions[other].pending # <<>>

----------------------------------------------------------------------------
(* SpecFiles: download_artifact and list_artifact_files over a storage in
   which runs have left directories and files, the root configured or not *)

rel(parts) == [abs |-> FALSE, parts |-> parts]

(* artifact.path of the rows: "a", "a/f", "../u2/a" and "" *)
StoredTexts == {rel(<<"a">>), rel(<<"a", "f">>), rel(<<Up, "u2", "a">>),
                rel(<<>>)}

(* file_path of the requests: "", ".", "f", ".." and "/f" *)
SubTexts == {rel(<<>>), rel(<<Dot>>), rel(<<"f">>), rel(<<Up>>),
             [abs |-> TRUE, parts |-> <<"f">>]}

FileItems ==
    [thread_id : {"t1"}, run_id : {None}, is_folder : BOOLEAN,
     path : StoredTexts]

FileBatches == UNION {[1 .. n -> FileItems] : n \in 1 .. MaxArtifacts}

(* where a run can leave a directory or a file *)
Places ==
    {Root \o <<u>> \o p : u \in Users, p \in {<<>>, <<"a">>, <<"a", "f">>}}

(* a run makes a directory in a directory that exists *)
mkdir(path) ==
    /\ path \notin disk.files \cup disk.dirs
    /\ Parent(path) \in disk.dirs \cup {Root}
    /\ disk' = [disk EXCEPT !.dirs = @ \cup {path}]
    /\ UNCHANGED <<last, NoStorage>>

(* a run writes a file into a directory of a user *)
write_file(path) ==
    /\ path \notin disk.files \cup disk.dirs
    /\ Parent(path) \in disk.dirs
    /\ disk' = [disk EXCEPT !.files = @ \cup {path}]
    /\ UNCHANGED <<last, NoStorage>>

NextFiles ==
    \/ /\ Open
       /\ \E path \in Places : mkdir(path)
    \/ /\ Open
       /\ \E path \in Places : write_file(path)
    \/ \E user \in Users, at \in Writes :
          \E artifacts \in FileBatches :
              /\ Cardinality(artifact) + Len(artifacts) <= MaxArtifacts
              /\ create_artifacts(user, artifacts, at)
    \/ \E user \in Users, at \in Reads :
          \E artifact_id \in ArtifactIds,
             file_path \in {{}} \cup {{t} : t \in SubTexts} :
              download_artifact(user, artifact_id, file_path, at)
    \/ \E user \in Users, at \in Reads :
          \E artifact_id \in ArtifactIds :
              list_artifact_files(user, artifact_id, at)

SpecFiles == InitPath /\ [][NextFiles]_vars

----------------------------------------------------------------------------
(* Properties of download_artifact and list_artifact_files, under SpecFiles.
   Every request is one step: last' is the request and its answer, the
   unprimed variables are the tables and the storage it was served from. *)

(* the request of this step names a row that its caller owns *)
OnKnown(op) == last'.op = op /\ last'.pre # {}

Known == one(last'.pre)

(* the request of this step carries a file_path other than "" *)
Supplied == \E f \in last'.payload[2] : nonempty(f)

(* what _resolve_artifact_path gives for the download of this step *)
Candidate ==
    _resolve_artifact_path(last'.user, Known.path, last'.payload[2])

NoFile == Candidate = {} \/ one(Candidate) \notin disk.files

(* the answer of this step is the JSON metadata with a filename that is the
   last part of the artifact's path or, the path having none, its id *)
MetadataFallback ==
    /\ last'.answer = OK
    /\ last'.out[1] = "metadata"
    /\ \/ /\ last'.out[3].name # ""
          /\ last'.out[3].name = Path(Known.path).parts[Len(Path(Known.path).parts)]
       \/ /\ Path(Known.path).parts = <<>>
          /\ last'.out[3].id = {Known.id}

Unresolved ==
    \A user \in Users, path \in StoredTexts :
        \A file_path \in {{}} \cup {{t} : t \in SubTexts} :
            _resolve_artifact_path(user, path, file_path) = {}

(* C22 as claimed: with no storage root configured, resolve returns None
   for every artifact and sub-path, and a download of a known artifact
   returns the JSON metadata for every is_folder and sub-path. *)
C22_AlwaysMetadata ==
    [][disk.root = {} =>
          /\ Unresolved
          /\ OnKnown("download") => MetadataFallback
    ]_vars

(* C22 as amended: with no storage root configured, resolve returns None
   for every artifact and sub-path; a download of a known artifact returns
   the JSON metadata unless the artifact is a folder and a sub-path other
   than "" is given, which is answered 404; a listing of a known artifact is
   answered 404 for a folder and 400 otherwise. *)
C22_MetadataUnlessFolderSubPath ==
    [][disk.root = {} =>
          /\ Unresolved
          /\ OnKnown("download") =>
                IF Known.is_folder /\ Supplied
                THEN last'.answer = NotFound
                ELSE MetadataFallback
          /\ OnKnown("files") =>
                last'.answer = IF Known.is_folder THEN NotFound
                                                 ELSE BadRequest
    ]_vars

(* C22 witness: no root is configured, a file lies where the root would be,
   and a download with a sub-path of an artifact that is no folder was
   answered with the metadata *)
C22_Witness ==
    /\ disk.root = {}
    /\ disk.files # {}
    /\ last.op = "download"
    /\ last.pre # {}
    /\ ~one(last.pre).is_folder
    /\ \E f \in last.payload[2] : nonempty(f)
    /\ last.answer = OK
    /\ last.out[1] = "metadata"

(* C23: a download of an artifact that its caller owns is answered 404 only
   when the artifact is a folder, a sub-path is given and no file is found
   for it; when a file is found at the resolved path it returns that file;
   in every other miss it returns the JSON metadata with a filename naming
   the artifact. *)
C23_NotFoundOnlyInFolder ==
    [][OnKnown("download") =>
          /\ last'.answer \in {OK, NotFound}
          /\ last'.answer = NotFound =>
                Known.is_folder /\ Supplied /\ NoFile
          /\ ~NoFile =>
                /\ last'.answer = OK
                /\ last'.out[1] = "file"
                /\ last'.out[2] = one(Candidate)
                /\ last'.out[2] \in disk.files
                /\ disk.root # {}
                /\ IsPrefix(Root \o <<last'.user>>, last'.out[2])
          /\ (NoFile /\ ~(Known.is_folder /\ Supplied)) => MetadataFallback
    ]_vars

(* C23 witness: u1's artifact has the path "../u2/a", a file lies at
   Root/u2/a, and u1's download was answered with the metadata *)
C23_Witness ==
    /\ last.op = "download"
    /\ last.user = "u1"
    /\ last.pre # {}
    /\ one(last.pre).path = rel(<<Up, "u2", "a">>)
    /\ disk.root # {}
    /\ Root \o <<"u2", "a">> \in disk.files
    /\ last.answer = OK
    /\ last.out[1] = "metadata"
    /\ last.out[3].name = "a"

(* the folder of the listing of this step *)
Folder == _resolve_artifact_path(last'.user, Known.path, {})

Listable ==
    /\ Known.is_folder
    /\ Folder # {}
    /\ one(Folder) \in disk.dirs
    /\ IsPrefix(Root \o <<last'.user>>, one(Folder))

(* C24 as claimed: a listing of a known artifact succeeds only for a folder
   whose resolved path is an existing directory inside the owner's root,
   and fails with NotFound otherwise, also when the artifact is no
   folder. *)
C24_NotFoundUnlessListable ==
    [][OnKnown("files") =>
          last'.answer = IF Listable THEN OK ELSE NotFound
    ]_vars

(* C24 as amended: a listing of a known artifact succeeds only for a folder
   whose resolved path is an existing directory inside the owner's root; it
   fails with BadRequest when the artifact is no folder and with NotFound
   when the artifact is a folder and the directory is not resolved or does
   not exist. *)
C24_BadRequestUnlessFolder ==
    [][OnKnown("files") =>
          last'.answer = IF Listable THEN OK
                         ELSE IF Known.is_folder THEN NotFound
                         ELSE BadRequest
    ]_vars

(* C24 witness: the listing of a folder with one file gave its name *)
C24_Witness ==
    /\ last.op = "files"
    /\ last.answer = OK
    /\ last.out = <<{"f"}>>
    /\ one(last.pre).is_folder

----------------------------------------------------------------------------
(* Properties of update_thread and create_thread, under Spec *)

(* the rows that _get_thread shows to the caller of this step *)
Visible ==
    {r \in OwnedRows(last'.user, last'.thread_id) :
        r.status # STATUS_DELETED}

(* C25: update_thread on a thread that the caller owns and that is not
   deleted sets the fields of the patch and leaves thread_id, user_id,
   status, created_at and a title that is not in the patch as they are, and
   every other row too; on a deleted thread or one of another identity it
   answers NotFound and changes no row. *)
C25_UpdateFrame ==
    [][last'.op = "update" =>
          LET patch == last'.payload[1]
          IN  /\ Visible = {} =>
                    (last'.answer = NotFound /\ threads' = threads)
              /\ Visible # {} =>
                    /\ last'.answer = OK
                    /\ \A r \in threads \ Visible : r \in threads'
                    /\ Cardinality(threads') = Cardinality(threads)
                    /\ After.thread_id = Before.thread_id
                    /\ After.user_id = Before.user_id
                    /\ After.status = Before.status
                    /\ After.created_at = Before.created_at
                    /\ After.title = IF "title" \in DOMAIN patch
                                     THEN patch["title"]
                                     ELSE Before.title
    ]_vars

(* C25 witness: a patch with the title null was applied to an archived
   thread with a title *)
C25_Witness ==
    /\ last.op = "update"
    /\ last.answer = OK
    /\ last.payload = <<[f \in {"title"} |-> None]>>
    /\ \E r \in last.pre : r.title # None /\ r.status = STATUS_ARCHIVED
    /\ \E r \in threads :
          /\ r.thread_id = last.thread_id
          /\ r.title = None
          /\ r.status = STATUS_ARCHIVED

(* C26: every successful update_thread leaves the thread's updated_at at a
   reading of the clock taken by that request, also when the patch has no
   field. *)
C26_UpdateRefreshes ==
    [][(last'.op = "update" /\ last'.answer = OK) =>
          After.updated_at \in {utcnow(clock'), now(clock')}
    ]_vars

(* C27: no two rows of conversation_thread have the same thread_id; no
   request removes a row or changes the thread_id or the user_id of a row;
   a new row comes from create_thread, with the caller as its user_id and a
   thread_id that no row had. *)
C27_ThreadIdentity ==
    /\ [](\A r, n \in threads : r.thread_id = n.thread_id => r = n)
    /\ [][/\ \A r \in threads : \E n \in threads' :
                n.thread_id = r.thread_id /\ n.user_id = r.user_id
          /\ \A n \in threads' :
                (\A r \in threads : r.thread_id # n.thread_id \/ r.user_id # n.user_id) =>
                    /\ n.thread_id \notin StoredIds
                    /\ last'.op = "create"
                    /\ last'.answer = OK
                    /\ n.user_id = last'.user
                    /\ n.thread_id = last'.thread_id
          /\ (last'.op = "create" /\ last'.answer = OK) =>
                \E n \in threads' \ threads :
                    n.user_id = last'.user /\ n.status = STATUS_ACTIVE
       ]_vars

(* C27 witness: the thread_id of a deleted thread of another identity was
   drawn again and the insert was refused *)
C27_Witness ==
    /\ last.op = "create"
    /\ last.answer = IntegrityError
    /\ \E r \in threads :
          /\ r.thread_id = last.thread_id
          /\ r.user_id # last.user
          /\ r.status = STATUS_DELETED

----------------------------------------------------------------------------
(* chat_stream next to delete_thread, under SpecStream *)

(* C29: the upstream request of a chat_stream call goes out only in a state
   in which the row of its thread is stored with a status other than
   deleted: no committed delete_thread comes between the thread check and
   the upstream request. *)
C29_UpstreamOnlyForLiveThread ==
    [][relay'.opens > relay.opens =>
          \E r \in threads :
              /\ r.thread_id = relay.thread_id
              /\ r.user_id = relay.user
              /\ r.status # STATUS_DELETED
    ]_vars

----------------------------------------------------------------------------
(* core/ids.py: generate_ulid.

   Python's integers have no width.  An integer is written here as the
   sequence of its 5-bit limbs, the least significant first: x & 0x1F is
   the first limb and x >> 5 the rest. *)

_CROCKFORD_ALPHABET ==
    <<"0", "1", "2", "3", "4", "5", "6", "7", "8", "9", "A", "B", "C", "D",
      "E", "F", "G", "H", "J", "K", "M", "N", "P", "Q", "R", "S", "T", "V",
      "W", "X", "Y", "Z">>

_ULID_LENGTH == 26

LimbBits == 5           \* value & 0x1F, value >>= 5
TimestampBits == 48     \* timestamp_ms >= 1 << 48
RandomBits == 80        \* os.urandom(10), timestamp_ms << 80

RECURSIVE pow2(_)
pow2(n) == IF n = 0 THEN 1 ELSE 2 * pow2(n - 1)

(* limb i of x; an integer has zeros above its last limb *)
Limb(x, i) == IF i \in DOMAIN x THEN x[i] ELSE 0

(* x >= 1 << k *)
AtLeastBit(x, k) ==
    \E i \in DOMAIN x :
        \/ i > (k \div LimbBits) + 1 /\ x[i] # 0
        \/ i = (k \div LimbBits) + 1 /\ x[i] >= pow2(k % LimbBits)

(* x << k, for a k that is a multiple of the limb width *)
ShiftLeft(x, k) == [i \in 1 .. (k \div LimbBits) |-> 0] \o x

(* a | b on the low n bits *)
RECURSIVE BitOr(_, _, _)
BitOr(a, b, n) ==
    IF n = 0
    THEN 0
    ELSE (IF a % 2 = 1 \/ b % 2 = 1 THEN 1 ELSE 0)
         + 2 * BitOr(a \div 2, b \div 2, n - 1)

(* x | y *)
Or(x, y) ==
    [i \in 1 .. (IF Len(x) > Len(y) THEN Len(x) ELSE Len(y)) |->
        BitOr(Limb(x, i), Limb(y, i), LimbBits)]

(* the loop of lines 16-18: n times, append the symbol of value & 0x1F and
   shift value right by 5 *)
RECURSIVE chars(_, _)
chars(value, n) ==
    IF n = 0
    THEN <<>>
    ELSE <<_CROCKFORD_ALPHABET[Limb(value, 1) + 1]>>
         \o chars(IF value = <<>> THEN <<>> ELSE Tail(value), n - 1)

reversed(s) == [i \in 1 .. Len(s) |-> s[Len(s) + 1 - i]]

(* generate_ulid without reversed(): the symbols in the order of the loop *)
generate_ulid_unreversed(timestamp_ms, random) ==
    IF AtLeastBit(timestamp_ms, TimestampBits)
    THEN [answer |-> "ValueError", out |-> <<>>]
    ELSE LET value == Or(ShiftLeft(timestamp_ms, RandomBits), random)
         IN  [answer |-> OK, out |-> chars(value, _ULID_LENGTH)]

(* generate_ulid(): timestamp_ms is int(time.time() * 1000) and random is
   int.from_bytes(os.urandom(10), "big"); the string is its symbols *)
generate_ulid(timestamp_ms, random) ==
    IF AtLeastBit(timestamp_ms, TimestampBits)
    THEN [answer |-> "ValueError", out |-> <<>>]
    ELSE LET value == Or(ShiftLeft(timestamp_ms, RandomBits), random)
         IN  [answer |-> OK, out |-> reversed(chars(value, _ULID_LENGTH))]

----------------------------------------------------------------------------
(* SpecUlid: calls of generate_ulid, one after the other, at any readings of
   the clock and with any random bytes; last keeps a call and the call
   before it *)

(* readings of the clock: limbs 1, 9 and 10 of ten take these values, and
   1 << 50 *)
Timestamps ==
    {[i \in 1 .. 10 |-> IF i = 1 THEN lo
                        ELSE IF i = 9 THEN mid
                        ELSE IF i = 10 THEN hi ELSE 0] :
        lo \in {0, 1, 31}, mid \in {0, 10}, hi \in {0, 7, 8, 31}}
    \cup {[i \in 1 .. 11 |-> IF i = 11 THEN 1 ELSE 0]}

(* 80 random bits: sixteen limbs *)
Randoms ==
    {[i \in 1 .. (RandomBits \div LimbBits) |->
        IF i = 1 THEN lo
        ELSE IF i = RandomBits \div LimbBits THEN hi ELSE fill] :
        lo \in {0, 31}, hi \in {0, 18, 31}, fill \in {0, 31}}

Generate(timestamp_ms, random) ==
    LET ret == generate_ulid(timestamp_ms, random)
        call == [timestamp_ms |-> timestamp_ms, random |-> random,
                 answer |-> ret.answer, out |-> ret.out]
    IN  /\ last' = [op |-> "generate_ulid", call |-> call,
                    before |-> IF last.op = "generate_ulid"
                               THEN {last.call} ELSE {}]
        /\ UNCHANGED <<threads, chat_message, clock, tz, Others>>

(* generate_ulid keeps nothing from one call to the next: a behaviour has
   two calls, whose identifiers are compared *)
NextUlid ==
    /\ last.op = "generate_ulid" => last.before = {}
    /\ \E timestamp_ms \in Timestamps, random \in Randoms :
          Generate(timestamp_ms, random)

SpecUlid == InitRun /\ [][NextUlid]_vars

(* x < y, from the most significant limb down *)
RECURSIVE LessFrom(_, _, _)
LessFrom(x, y, i) ==
    IF i = 0
    THEN FALSE
    ELSE \/ Limb(x, i) < Limb(y, i)
         \/ Limb(x, i) = Limb(y, i) /\ LessFrom(x, y, i - 1)

Less(x, y) == LessFrom(x, y, IF Len(x) > Len(y) THEN Len(x) ELSE Len(y))

(* ord(ch) of a digit or a capital letter *)
Digits == <<"0", "1", "2", "3", "4", "5", "6", "7", "8", "9">>

Capitals ==
    <<"A", "B", "C", "D", "E", "F", "G", "H", "I", "J", "K", "L", "M", "N",
      "O", "P", "Q", "R", "S", "T", "U", "V", "W", "X", "Y", "Z">>

ord(ch) ==
    IF \E i \in DOMAIN Digits : Digits[i] = ch
    THEN 47 + (CHOOSE i \in DOMAIN Digits : Digits[i] = ch)
    ELSE 64 + (CHOOSE i \in DOMAIN Capitals : Capitals[i] = ch)

(* a < b of two str: the code points at the first place where they differ *)
StrLess(a, b) ==
    \/ Len(a) < Len(b) /\ \A i \in DOMAIN a : a[i] = b[i]
    \/ \E i \in DOMAIN a \cap DOMAIN b :
          /\ \A j \in 1 .. (i - 1) : a[j] = b[j]
          /\ ord(a[i]) < ord(b[i])

(* the 32 symbols that the claim names, in their order *)
Symbols ==
    <<"0", "1", "2", "3", "4", "5", "6", "7", "8", "9", "A", "B", "C", "D",
      "E", "F", "G", "H", "J", "K", "M", "N", "P", "Q", "R", "S", "T", "V",
      "W", "X", "Y", "Z">>

(* C28: for a timestamp below 2^48 and any 80 random bits, generate_ulid
   returns 26 symbols of 0123456789ABCDEFGHJKMNPQRSTVWXYZ, without I, L, O
   and U, that are the base-32 digits of timestamp * 2^80 + random, the most
   significant first; of two identifiers the one of the smaller timestamp is
   the smaller string, whatever the random bits; for a timestamp of 2^48 or
   more it raises instead. *)
C28_UlidEncoding ==
    last.op = "generate_ulid" =>
        LET t == last.call.timestamp_ms
            out == last.call.out
        IN  IF \E i \in DOMAIN t :
                  (i = 10 /\ t[i] >= 8) \/ (i > 10 /\ t[i] # 0)
            THEN last.call.answer = "ValueError" /\ out = <<>>
            ELSE /\ last.call.answer = OK
                 /\ Len(out) = 26
                 /\ \A i \in 1 .. 26 :
                       /\ \E k \in 1 .. 32 : out[i] = Symbols[k]
                       /\ out[i] \notin {"I", "L", "O", "U"}
                 /\ \A i \in 1 .. 16 :
                       out[27 - i] = Symbols[last.call.random[i] + 1]
                 /\ \A i \in 1 .. 10 : out[11 - i] = Symbols[t[i] + 1]
                 /\ \A b \in last.before :
                       b.answer = OK =>
                           /\ Less(b.timestamp_ms, t) => StrLess(b.out, out)
                           /\ Less(t, b.timestamp_ms) => StrLess(out, b.out)

(* C28 witness: the later of two identifiers has the greater timestamp and
   the smaller random bits, and a symbol past the 9 in its timestamp *)
C28_Witness ==
    /\ last.op = "generate_ulid"
    /\ last.call.answer = OK
    /\ last.call.timestamp_ms[9] = 10
    /\ \E b \in last.before :
          /\ b.answer = OK
          /\ Less(b.timestamp_ms, last.call.timestamp_ms)
          /\ Less(last.call.random, b.random)
          /\ b.timestamp_ms[1] = 31

----------------------------------------------------------------------------
(* SpecUse: the handlers of chat.py that use a thread, next to the
   lifecycle requests, one request at a time *)

(* skip and limit of GET /threads: the defaults and a page of one row *)
PageSkips == {0, 1}
PageLimits == {1, 100}

NextUse ==
    \/ \E user \in Users, thread_id \in ThreadIds, at \in Writes :
          \E title \in Titles : create_thread(user, title, thread_id, at)
    \/ \E user \in Users, thread_id \in ThreadIds, at \in Writes :
          archive_thread(user, thread_id, at)
    \/ \E user \in Users, thread_id \in ThreadIds, at \in Writes :
          restore_thread(user, thread_id, at)
    \/ \E user \in Users, thread_id \in ThreadIds, at \in Writes :
          delete_thread(user, thread_id, at)
    \/ \E user \in Users, thread_id \in ThreadIds, at \in Reads :
          get_thread(user, thread_id, at)
    \/ \E user \in Users, thread_id \in ThreadIds, at \in Writes :
          \E update_data \in Patches :
              update_thread(user, thread_id, update_data, at)
    \/ \E user \in Users, thread_id \in ThreadIds, at \in Writes :
          \E messages \in Batches :
              /\ Len(chat_message) + Len(messages) <= MaxMessages
              /\ create_messages(user, thread_id, messages, at)
    \/ \E user \in Users, thread_id \in ThreadIds, at \in Reads :
          get_messages(user, thread_id, at)
    \/ \E user \in Users, thread_id \in ThreadIds, at \in Reads :
          chat_stream(user, thread_id, at)
    \/ \E user \in Users, skip \in PageSkips, limit \in PageLimits,
           at \in Reads :
          list_threads(user, skip, limit, at)

SpecUse == InitRun /\ [][NextUse]_vars

(* the requests that use a thread *)
UseOps == {"get", "update", "record", "messages", "stream"}

(* the threads that list_threads is to show to the caller of this step *)
Listed ==
    {r \in threads : r.user_id = last'.user /\ r.status # STATUS_DELETED}

(* C30 as claimed: get_thread, update_thread, create_messages, get_messages
   and chat_stream on a thread that the caller owns are answered OK when
   its status is active or archived and NotFound when it is deleted;
   list_threads returns the caller's threads that are not deleted, all of
   them and no other, and their number as count. *)
C30_UsableUnlessDeleted ==
    [][/\ (last'.op \in UseOps /\ OnOwned(last'.op)) =>
            last'.answer = IF Before.status = STATUS_DELETED
                           THEN NotFound ELSE OK
       /\ last'.op = "list" =>
            /\ Range(last'.out) = Listed
            /\ Len(last'.out) = Cardinality(Listed)
            /\ last'.payload[1] = Cardinality(Listed)
    ]_vars

(* C30 as amended: as claimed, but create_messages with an empty list is
   answered OK with an empty list also on a deleted thread, and
   list_threads returns of the caller's threads that are not deleted the
   limit rows after the first skip ones, latest updated_at first: all of
   them when skip is 0 and limit is not below their number. *)
C30_UsableUnlessDeletedPaged ==
    [][/\ (last'.op \in UseOps /\ OnOwned(last'.op)) =>
            IF last'.op = "record" /\ last'.payload = <<>>
            THEN last'.answer = OK /\ last'.out = <<>>
            ELSE last'.answer = IF Before.status = STATUS_DELETED
                                THEN NotFound ELSE OK
       /\ last'.op = "list" =>
            LET count == last'.payload[1]
                skip == last'.payload[2]
                limit == last'.payload[3]
                out == last'.out
                rest == IF count > skip THEN count - skip ELSE 0
            IN  /\ count = Cardinality(Listed)
                /\ Range(out) \subseteq Listed
                /\ \A i, j \in DOMAIN out :
                      /\ i # j => out[i] # out[j]
                      /\ i < j => out[i].updated_at >= out[j].updated_at
                /\ Len(out) = IF rest < limit THEN rest ELSE limit
                /\ \A r \in Listed \ Range(out) :
                      \/ \A i \in DOMAIN out : out[i].updated_at >= r.updated_at
                      \/ \A i \in DOMAIN out : out[i].updated_at <= r.updated_at
                /\ (skip = 0 /\ limit >= count) => Range(out) = Listed
    ]_vars

(* C30 witness: a message was recorded in an archived thread *)
C30_Witness ==
    /\ last.op = "record"
    /\ last.answer = OK
    /\ last.payload # <<>>
    /\ \E r \in last.pre : r.status = STATUS_ARCHIVED
    /\ \E i \in DOMAIN chat_message :
          chat_message[i].thread_id = last.thread_id

====
